---------------------------- MODULE Spec2Model ----------------------------
(***************************************************************************)
(* A model of the TRSbench aggregation and scoring engine of               *)
(* trainingrun-site: the entity resolver (model_names.py), the scoring     *)
(* engine and ledger update of agent_trs.py, the ledger update of          *)
(* scripts/trs_orchestrator.py, and the integrity checksum.                *)
(*                                                                         *)
(* Conventions.                                                            *)
(*   - A Python str is a sequence of one-character strings, so that the    *)
(*     string functions of the code (lower, strip, split, regular          *)
(*     expressions, "in") are computed and not assumed.                    *)
(*   - A Python float that the code rounds to d decimals is the integer    *)
(*     number of 10^-d units: a normalized value is in units of 0.0001     *)
(*     (round(x, 4)), a score of the ledger in units of 0.01 (round(x, 2)).*)
(*     Arithmetic between two roundings is exact (rational); a rounding    *)
(*     is to the nearest unit.                                             *)
(*   - Python's None is NoName where a name is expected and NoScore where  *)
(*     a number is expected; a present number v of a score list is <<v>>.  *)
(***************************************************************************)
EXTENDS Integers, Sequences, FiniteSets, TLC

(***************************************************************************)
(* Characters.  Alphabet lists the characters that occur in the names of   *)
(* the model in code-point order, which is the order of Python's sorted()  *)
(* and of str comparison.  "U+1F195" stands for the one code point of the  *)
(* emoji that scrapers prepend to a new model's name.                      *)
(***************************************************************************)
Alphabet ==
    <<" ", "(", ")", "+", ",", "-", ".", "/",
      "0", "1", "2", "3", "4", "5", "6", "7", "8", "9", ":",
      "A", "B", "C", "D", "E", "F", "G", "H", "I", "J", "K", "L", "M",
      "N", "O", "P", "Q", "R", "S", "T", "U", "V", "W", "X", "Y", "Z", "_",
      "a", "b", "c", "d", "e", "f", "g", "h", "i", "j", "k", "l", "m",
      "n", "o", "p", "q", "r", "s", "t", "u", "v", "w", "x", "y", "z", "|",
      "U+1F195">>

Chars == {Alphabet[i] : i \in 1..Len(Alphabet)}

\* ord(c): the rank of c's code point among the characters of Alphabet.
ord == [c \in Chars |-> CHOOSE i \in 1..Len(Alphabet) : Alphabet[i] = c]

IsUpper(c) == ord[c] >= ord["A"] /\ ord[c] <= ord["Z"]
IsLower(c) == ord[c] >= ord["a"] /\ ord[c] <= ord["z"]
IsDigit(c) == ord[c] >= ord["0"] /\ ord[c] <= ord["9"]
IsSpace(c) == c = " "
IsEmoji(c) == c = "U+1F195"
\* \w of a regular expression, and the org-slug class [a-z0-9\-_]
IsWord(c) == IsUpper(c) \/ IsLower(c) \/ IsDigit(c) \/ c = "_"
IsSlug(c) == IsLower(c) \/ IsDigit(c) \/ c = "-" \/ c = "_"

lower_char == [c \in Chars |->
    IF IsUpper(c) THEN Alphabet[ord[c] - ord["A"] + ord["a"]] ELSE c]

\* str.lower()
lower(s) == [i \in 1..Len(s) |-> lower_char[s[i]]]

RECURSIVE lstrip(_)
lstrip(s) == IF s # <<>> /\ IsSpace(Head(s)) THEN lstrip(Tail(s)) ELSE s

RECURSIVE rstrip(_)
rstrip(s) ==
    IF s # <<>> /\ IsSpace(s[Len(s)]) THEN rstrip(SubSeq(s, 1, Len(s) - 1)) ELSE s

\* str.strip()
strip(s) == lstrip(rstrip(s))

\* str.startswith / str.endswith
startswith(s, p) == Len(p) <= Len(s) /\ SubSeq(s, 1, Len(p)) = p
endswith(s, p) == Len(p) <= Len(s) /\ SubSeq(s, Len(s) - Len(p) + 1, Len(s)) = p

\* needle in hay (substring containment; the empty string is in every string)
contains(hay, needle) ==
    \E i \in 0..(Len(hay) - Len(needle)) :
        SubSeq(hay, i + 1, i + Len(needle)) = needle

\* s.replace(a, b) for single characters a and b
replace_char(s, a, b) == [i \in 1..Len(s) |-> IF s[i] = a THEN b ELSE s[i]]

\* s.replace(a, "") for a single character a
RECURSIVE remove_char(_, _)
remove_char(s, a) ==
    IF s = <<>> THEN <<>>
    ELSE IF Head(s) = a THEN remove_char(Tail(s), a)
    ELSE <<Head(s)>> \o remove_char(Tail(s), a)

\* str.isdigit(): non-empty and every character a digit
isdigit(s) == s # <<>> /\ \A i \in 1..Len(s) : IsDigit(s[i])

\* a < b in Python's str order (code points, then length)
RECURSIVE str_less(_, _)
str_less(a, b) ==
    IF b = <<>> THEN FALSE
    ELSE IF a = <<>> THEN TRUE
    ELSE IF Head(a) # Head(b) THEN ord[Head(a)] < ord[Head(b)]
    ELSE str_less(Tail(a), Tail(b))

\* sorted(S) for a finite set of strings
RECURSIVE sorted(_)
sorted(S) ==
    IF S = {} THEN <<>>
    ELSE LET m == CHOOSE x \in S : \A y \in S \ {x} : str_less(x, y)
         IN  <<m>> \o sorted(S \ {m})

\* re.sub(r'\s+', ' ', s)
RECURSIVE collapse_spaces(_)
collapse_spaces(s) ==
    IF s = <<>> THEN <<>>
    ELSE IF IsSpace(Head(s)) THEN <<" ">> \o collapse_spaces(lstrip(s))
    ELSE <<Head(s)>> \o collapse_spaces(Tail(s))

\* set(s.split()): the set of whitespace-separated tokens
RECURSIVE take_word(_)
take_word(s) ==
    IF s = <<>> \/ IsSpace(Head(s)) THEN <<>>
    ELSE <<Head(s)>> \o take_word(Tail(s))

RECURSIVE split_set(_)
split_set(s) ==
    LET t == lstrip(s)
    IN  IF t = <<>> THEN {}
        ELSE LET w == take_word(t)
             IN  {w} \cup split_set(SubSeq(t, Len(w) + 1, Len(t)))

(***************************************************************************)
(* The names of the model: roster names, alias spellings and decorated     *)
(* forms of them, and names of models that no roster holds yet.            *)
(***************************************************************************)
N_GPT4o          == <<"G","P","T","-","4","o">>
N_GPT4           == <<"G","P","T","-","4">>
N_O3             == <<"O","3">>
N_o3             == <<"o","3">>
N_org_gpt4o      == <<"o","p","e","n","a","i","/","g","p","t","-","4","o">>
N_Nova           == <<"N","o","v","a">>
N_nova           == <<"n","o","v","a">>
N_Nova_thinking  == <<"N","o","v","a"," ","(","t","h","i","n","k","i","n","g",")">>
N_Nova_Pro_2     == <<"N","o","v","a"," ","P","r","o"," ","2">>
N_Nova_2_Lite    == <<"N","o","v","a"," ","2"," ","L","i","t","e">>
N_grok4          == <<"g","r","o","k","4">>
N_Grok_420       == <<"G","r","o","k"," ","4",".","2","0">>
N_Zed_v2         == <<"Z","e","d","_","v","2">>
N_12_34          == <<"1","2","-","3","4">>
N_emoji_Nova     == <<"U+1F195"," ","N","o","v","a">>
N_opus_46        == <<"o","p","u","s"," ","4",".","6">>
N_Claude_Opus_46 == <<"C","l","a","u","d","e"," ","O","p","u","s"," ","4",".","6">>
N_Opus_9         == <<"O","p","u","s"," ","9">>

Names ==
    {N_GPT4o, N_GPT4, N_O3, N_o3, N_org_gpt4o, N_Nova, N_nova, N_Nova_thinking,
     N_Nova_Pro_2, N_Nova_2_Lite, N_grok4, N_Grok_420, N_Zed_v2, N_12_34,
     N_emoji_Nova, N_opus_46, N_Claude_Opus_46, N_Opus_9}

(***************************************************************************)
(* model_names.py.  CANONICAL_ROSTER and ALIASES hold the entries of the   *)
(* code's tables that a name of Names can reach: the roster names whose    *)
(* lower-case form, and the alias keys that, equal the cleaned lower-case  *)
(* form of a name of Names (or its "Claude "-expanded form).  On Names the *)
(* lookups below are those of the full tables.                             *)
(***************************************************************************)
CANONICAL_ROSTER == <<N_Claude_Opus_46, N_GPT4, N_GPT4o, N_O3, N_Grok_420>>

ALIASES ==
    <<[key |-> N_opus_46, value |-> N_Claude_Opus_46],
      [key |-> N_o3,      value |-> N_O3],
      [key |-> N_grok4,   value |-> N_Grok_420]>>

\* cl in ALIASES, ALIASES[cl]
in_aliases(cl) == \E i \in 1..Len(ALIASES) : ALIASES[i].key = cl
alias_of(cl) == ALIASES[CHOOSE i \in 1..Len(ALIASES) : ALIASES[i].key = cl].value

\* for c in CANONICAL_ROSTER: if c.lower() == cl: return c   (the first such c)
in_roster_lower(cl) ==
    \E i \in 1..Len(CANONICAL_ROSTER) : lower(CANONICAL_ROSTER[i]) = cl
roster_lower(cl) ==
    CANONICAL_ROSTER[CHOOSE i \in 1..Len(CANONICAL_ROSTER) :
        /\ lower(CANONICAL_ROSTER[i]) = cl
        /\ \A j \in 1..(i - 1) : lower(CANONICAL_ROSTER[j]) # cl]

\* re.sub(r'^[emoji]+\s*', '', name): leading emoji, then the blanks after them
RECURSIVE drop_emoji(_)
drop_emoji(s) ==
    IF s # <<>> /\ IsEmoji(Head(s)) THEN drop_emoji(Tail(s)) ELSE s

strip_emoji_prefix(s) ==
    IF s # <<>> /\ IsEmoji(Head(s)) THEN lstrip(drop_emoji(s)) ELSE s

\* before, after = s.split('/', 1); s = after when before is an org slug
strip_org_prefix(s) ==
    IF \E i \in 1..Len(s) : s[i] = "/"
    THEN LET k == CHOOSE i \in 1..Len(s) :
                      s[i] = "/" /\ \A j \in 1..(i - 1) : s[j] # "/"
             before == SubSeq(s, 1, k - 1)
             after  == SubSeq(s, k + 1, Len(s))
         IN  IF before # <<>> /\ \A i \in 1..Len(before) : IsSlug(before[i])
             THEN after ELSE s
    ELSE s

RAW_API_SUFFIXES ==
    {<<"z","e","r","o"," ","s","h","o","t">>,
     <<"s","c","r","a","t","c","h","p","a","d">>,
     <<"t","h","i","n","k","i","n","g">>,
     <<"h","i","g","h"," ","r","e","a","s","o","n","i","n","g">>}

\* re.sub(r'\s*\((zero shot|scratchpad|thinking|high reasoning)\)\s*$', '', s,
\*        flags=re.IGNORECASE)
strip_api_suffix(s) ==
    LET t == rstrip(s)
        hit == {k \in RAW_API_SUFFIXES : endswith(lower(t), <<"(">> \o k \o <<")">>)}
    IN  IF hit = {} THEN s
        ELSE LET k == CHOOSE x \in hit : TRUE
             IN  rstrip(SubSeq(t, 1, Len(t) - Len(k) - 2))

\* _strip_noise(name)
strip_noise(name) ==
    strip(strip_api_suffix(strip_org_prefix(strip_emoji_prefix(name))))

\* re.sub(r'(\d)\s*-\s*(\d)', r'\1.\2', s)
RECURSIVE dash_to_dot(_)
dash_to_dot(s) ==
    IF s = <<>> THEN <<>>
    ELSE LET r1 == lstrip(Tail(s))
             r2 == IF r1 = <<>> THEN <<>> ELSE lstrip(Tail(r1))
         IN  IF /\ IsDigit(Head(s))
                /\ r1 # <<>> /\ Head(r1) = "-"
                /\ r2 # <<>> /\ IsDigit(Head(r2))
             THEN <<Head(s), ".", Head(r2)>> \o dash_to_dot(Tail(r2))
             ELSE <<Head(s)>> \o dash_to_dot(Tail(s))

\* re.sub(r'\bv(\d)', r'\1', s); prev_word: the character before s is a \w
RECURSIVE strip_v(_, _)
strip_v(s, prev_word) ==
    IF s = <<>> THEN <<>>
    ELSE IF Head(s) = "v" /\ ~prev_word /\ Len(s) >= 2 /\ IsDigit(s[2])
    THEN <<s[2]>> \o strip_v(SubSeq(s, 3, Len(s)), TRUE)
    ELSE <<Head(s)>> \o strip_v(Tail(s), IsWord(Head(s)))

\* _normalize(name).  The dashes are replaced by blanks before the
\* digit-dash-digit substitution runs, as in the code.
normalize(name) ==
    LET s0 == lower(strip_noise(name))
        s1 == replace_char(replace_char(s0, "_", " "), "-", " ")
        s2 == dash_to_dot(s1)
        s3 == strip_v(s2, FALSE)
    IN  strip(collapse_spaces(s3))

CLAUDE_SHORT ==
    <<[short |-> <<"o","p","u","s"," ">>,
       full  |-> <<"C","l","a","u","d","e"," ","O","p","u","s"," ">>],
      [short |-> <<"s","o","n","n","e","t"," ">>,
       full  |-> <<"C","l","a","u","d","e"," ","S","o","n","n","e","t"," ">>],
      [short |-> <<"h","a","i","k","u"," ">>,
       full  |-> <<"C","l","a","u","d","e"," ","H","a","i","k","u"," ">>]>>

\* canonicalize(name), from Step 2 on: cleaned and cl = cleaned.lower()
canonicalize_lookup(cleaned, cl) ==
    LET shorts  == {k \in 1..Len(CLAUDE_SHORT) :
                       /\ startswith(cl, CLAUDE_SHORT[k].short)
                       /\ ~startswith(cl, <<"c","l","a","u","d","e">>)}
    IN  IF shorts # {}
        THEN LET k == CHOOSE x \in shorts : \A y \in shorts : x <= y
                 expanded == CLAUDE_SHORT[k].full \o
                             SubSeq(cleaned, Len(CLAUDE_SHORT[k].short) + 1,
                                    Len(cleaned))
                 cl_exp == lower(expanded)
             IN  IF in_aliases(cl_exp) THEN alias_of(cl_exp)
                 ELSE IF in_roster_lower(cl_exp) THEN roster_lower(cl_exp)
                 ELSE expanded
        ELSE IF in_aliases(cl) THEN alias_of(cl)
        ELSE IF in_roster_lower(cl) THEN roster_lower(cl)
        ELSE cleaned

\* canonicalize(name), from cleaned = _strip_noise(name) on
canonicalize_cleaned(cleaned) == canonicalize_lookup(cleaned, lower(cleaned))

\* canonicalize(name)
canonicalize(name) ==
    IF name = <<>> \/ strip(name) = <<>> THEN name
    ELSE canonicalize_cleaned(strip_noise(name))

\* Python's None where a name is expected (a name is a sequence of
\* characters, and "None" is no character).
NoName == <<"None">>

\* The name at the least index of idx (indices into `existing`), or NoName.
first_of(existing, idx) ==
    IF idx = {} THEN NoName
    ELSE existing[CHOOSE i \in idx : \A j \in idx : i <= j]

\* match_name, the three tiers: canon = canonicalize(scraped) and
\* canon_norm = _normalize(canon)
match_tiers(canon, canon_norm, existing) ==
    LET c_tok == split_set(canon_norm)
        tier1 == {i \in 1..Len(existing) :
                     \/ lower(canonicalize(existing[i])) = lower(canon)
                     \/ lower(existing[i]) = lower(canon)}
        tier2 == {i \in 1..Len(existing) :
                     LET n == normalize(existing[i])
                     IN  contains(n, canon_norm) \/ contains(canon_norm, n)}
        tier3 == {i \in 1..Len(existing) :
                     Cardinality(c_tok \cap split_set(normalize(existing[i]))) >= 2}
    IN  IF tier1 # {} THEN first_of(existing, tier1)
        ELSE IF tier2 # {} THEN first_of(existing, tier2)
        ELSE first_of(existing, tier3)

\* match_name, from canon = canonicalize(scraped) on
match_canon(canon, existing) == match_tiers(canon, normalize(canon), existing)

\* match_name(scraped, existing) of model_names.py
match_name(scraped, existing) ==
    IF scraped = <<>> THEN NoName
    ELSE match_canon(canonicalize(scraped), existing)

(***************************************************************************)
(* Numbers.  TLC's integers are 32 bits wide, so a product is divided in   *)
(* stages; every operand below stays under 2^31 for the values of the      *)
(* model (TLC reports an overflow as an error, never silently).            *)
(***************************************************************************)
NoScore == <<>>

\* floor and remainder of a*b/c for a >= 0, b > 0, c > 0 with c*b < 2^31
MulDivFR(a, b, c) ==
    LET q == a \div c
        r == a % c
    IN  [fl |-> q * b + ((r * b) \div c), rem |-> (r * b) % c]

\* Python's round(): to the nearest integer, a tie to the even one
round_half_even(fr, c) ==
    IF 2 * fr.rem < c THEN fr.fl
    ELSE IF 2 * fr.rem > c THEN fr.fl + 1
    ELSE fr.fl + (fr.fl % 2)

\* round(a * b / c) for a of either sign
MulDivRound(a, b, c) ==
    IF a >= 0 THEN round_half_even(MulDivFR(a, b, c), c)
    ELSE 0 - round_half_even(MulDivFR(0 - a, b, c), c)

\* round(a * 10^6 / c): a ratio a/c as a percentage in units of 0.0001
PercentE4(a, c) ==
    LET neg == a < 0
        m   == IF neg THEN 0 - a ELSE a
        s1  == MulDivFR(m, 1000, c)
        s2  == [fl  |-> s1.fl * 1000 + ((s1.rem * 1000) \div c),
                rem |-> (s1.rem * 1000) % c]
        r   == round_half_even(s2, c)
    IN  IF neg THEN 0 - r ELSE r

\* max / min / sum of a non-empty finite set of integers, of a function's values
MaxOf(S) == CHOOSE x \in S : \A y \in S : y <= x
MinOf(S) == CHOOSE x \in S : \A y \in S : x <= y
Range(f) == {f[x] : x \in DOMAIN f}

RECURSIVE SumOver(_, _)
SumOver(S, f) ==
    IF S = {} THEN 0
    ELSE LET x == CHOOSE y \in S : TRUE IN f[x] + SumOver(S \ {x}, f)

\* {} as a dict: the function with the empty domain
EmptyMap == [x \in {} |-> 0]

(***************************************************************************)
(* agent_trs.py: configuration.  A weight is in units of 0.01.             *)
(***************************************************************************)
Pillars ==
    <<"safety", "reasoning", "coding", "human_preference", "knowledge",
      "efficiency", "usage_adoption">>

PillarSet == {Pillars[i] : i \in 1..Len(Pillars)}

WEIGHTS ==
    [k \in PillarSet |->
        CASE k = "safety"           -> 21
          [] k = "reasoning"        -> 20
          [] k = "coding"           -> 20
          [] k = "human_preference" -> 18
          [] k = "knowledge"        -> 8
          [] k = "efficiency"       -> 7
          [] k = "usage_adoption"   -> 6]

QUALIFICATION_MIN_CATEGORIES == 1

AUTO_DISCOVER_MIN_SOURCES == 2

(***************************************************************************)
(* agent_trs.py: scoring engine.                                           *)
(***************************************************************************)

\* One source of normalize_sources_and_merge's loop: acc is
\* [num, den, cnt] per model (the sum of val/top as the fraction num/den, and
\* the number of sources summed) and hit the number of live sources.
merge_source(acc, raw) ==
    IF DOMAIN raw = {} THEN acc                                 \* if not raw
    ELSE LET top == MaxOf(Range(raw))
         IN  IF top <= 0 THEN acc
             ELSE [merged |->
                     [m \in DOMAIN acc.merged \cup DOMAIN raw |->
                        IF m \notin DOMAIN raw THEN acc.merged[m]
                        ELSE IF m \notin DOMAIN acc.merged
                        THEN [num |-> raw[m], den |-> top, cnt |-> 1]
                        ELSE [num |-> acc.merged[m].num * top
                                      + raw[m] * acc.merged[m].den,
                              den |-> acc.merged[m].den * top,
                              cnt |-> acc.merged[m].cnt + 1]],
                   hit |-> acc.hit + 1]

RECURSIVE merge_sources(_, _)
merge_sources(acc, scraper_list) ==
    IF scraper_list = <<>> THEN acc
    ELSE merge_sources(merge_source(acc, Head(scraper_list)), Tail(scraper_list))

\* normalize_sources_and_merge(scraper_list), scraper_list being what the
\* scrapers return.  The code returns the pair (merged, sources_hit), and the
\* bare {} when nothing was merged: is_pair tells the two apart.
normalize_sources_and_merge(scraper_list) ==
    LET acc == merge_sources([merged |-> EmptyMap, hit |-> 0], scraper_list)
    IN  IF DOMAIN acc.merged = {}
        THEN [is_pair |-> FALSE, merged |-> EmptyMap, sources_hit |-> 0]
        ELSE [is_pair |-> TRUE,
              merged |-> [m \in DOMAIN acc.merged |->
                            PercentE4(acc.merged[m].num,
                                      acc.merged[m].den * acc.merged[m].cnt)],
              sources_hit |-> acc.hit]

\* normalize_across_models(models, category, raw_values) of agent_trs.py
trs_normalize_across_models(models, raw_values) ==
    LET names == {models[i].name : i \in 1..Len(models)}
        vals  == {k \in names \cap DOMAIN raw_values : raw_values[k] > 0}
    IN  IF vals = {} THEN EmptyMap
        ELSE LET top == MaxOf({raw_values[k] : k \in vals})
             IN  [k \in vals |-> PercentE4(raw_values[k], top)]

\* calculate_composite(model_name, normalized) of agent_trs.py:
\* [score, covered], the score in units of 0.01
calculate_composite(model_name, normalized) ==
    LET total_pillars == Len(Pillars)
        available == {k \in PillarSet :
                         /\ k \in DOMAIN normalized
                         /\ model_name \in DOMAIN normalized[k]
                         /\ normalized[k][model_name] > 0}
    IN  IF available = {} THEN [score |-> 0, covered |-> 0]
        ELSE
        LET weight_sum == SumOver(available, WEIGHTS)
            \* sum of value * weight, in units of 10^-6
            weighted == SumOver(available,
                            [k \in available |->
                                normalized[k][model_name] * WEIGHTS[k]])
            covered == Cardinality(available)
            \* dampener = 0.70 + 0.30 * (covered / total_pillars)
            \*          = (7 * total_pillars + 3 * covered) / (10 * total_pillars)
            damp_num == 7 * total_pillars + 3 * covered
            damp_den == 10 * total_pillars
            \* round(raw_composite * dampener, 2) in units of 0.01:
            \* weighted / weight_sum is in units of 0.0001
        IN  [score   |-> MulDivRound(weighted, damp_num,
                                     weight_sum * damp_den * 100),
             covered |-> covered]

(***************************************************************************)
(* The checksum.  sha256 is modelled as collision free: the digest of a    *)
(* string is the string, marked as a digest.                               *)
(***************************************************************************)
sha256(s) == [sha256_of |-> s]

\* str(n) for n >= 0
RECURSIVE digits(_)
digits(n) ==
    IF n < 10 THEN <<Alphabet[ord["0"] + n]>>
    ELSE digits(n \div 10) \o <<Alphabet[ord["0"] + (n % 10)]>>

\* The scores k (units of 0.01, 0 <= k <= 10005, k % 10 = 5) whose float k/100
\* lies above the decimal tie, so that "%.1f" rounds them up: "%.1f" rounds
\* the binary value of the float, which is exact only when k % 25 = 0.
FMT1_TIES_UP ==
    {5, 45, 55, 65, 75, 105, 135, 155, 175, 185, 235, 245, 275, 285,
     295, 335, 345, 375, 385, 395, 415, 445, 465, 475, 495, 515, 545, 565,
     575, 595, 615, 645, 665, 675, 695, 715, 745, 765, 775, 795, 805, 815,
     855, 865, 875, 905, 915, 955, 965, 975, 1005, 1015, 1055, 1065, 1075, 1105,
     1115, 1155, 1165, 1175, 1205, 1215, 1255, 1265, 1275, 1305, 1315, 1355, 1365, 1375,
     1405, 1415, 1455, 1465, 1475, 1505, 1515, 1555, 1565, 1575, 1605, 1635, 1655, 1675,
     1685, 1705, 1735, 1755, 1775, 1785, 1805, 1835, 1855, 1875, 1885, 1905, 1935, 1955,
     1975, 1985, 2005, 2035, 2055, 2075, 2085, 2105, 2135, 2155, 2175, 2185, 2205, 2235,
     2255, 2275, 2285, 2305, 2335, 2355, 2375, 2385, 2405, 2435, 2455, 2475, 2485, 2505,
     2535, 2555, 2575, 2585, 2605, 2635, 2655, 2675, 2685, 2705, 2735, 2755, 2775, 2785,
     2805, 2835, 2855, 2875, 2885, 2905, 2935, 2955, 2975, 2985, 3005, 3035, 3055, 3075,
     3085, 3105, 3135, 3155, 3175, 3185, 3235, 3245, 3275, 3285, 3295, 3335, 3345, 3375,
     3385, 3395, 3435, 3445, 3475, 3485, 3495, 3535, 3545, 3575, 3585, 3595, 3635, 3645,
     3675, 3685, 3695, 3735, 3745, 3775, 3785, 3795, 3835, 3845, 3875, 3885, 3895, 3935,
     3945, 3975, 3985, 3995, 4035, 4045, 4075, 4085, 4095, 4135, 4145, 4175, 4185, 4195,
     4235, 4245, 4275, 4285, 4295, 4335, 4345, 4375, 4385, 4395, 4435, 4445, 4475, 4485,
     4495, 4535, 4545, 4575, 4585, 4595, 4635, 4645, 4675, 4685, 4695, 4735, 4745, 4775,
     4785, 4795, 4835, 4845, 4875, 4885, 4895, 4935, 4945, 4975, 4985, 4995, 5035, 5045,
     5075, 5085, 5095, 5135, 5145, 5175, 5185, 5195, 5235, 5245, 5275, 5285, 5295, 5335,
     5345, 5375, 5385, 5395, 5435, 5445, 5475, 5485, 5495, 5535, 5545, 5575, 5585, 5595,
     5635, 5645, 5675, 5685, 5695, 5735, 5745, 5775, 5785, 5795, 5835, 5845, 5875, 5885,
     5895, 5935, 5945, 5975, 5985, 5995, 6035, 6045, 6075, 6085, 6095, 6135, 6145, 6175,
     6185, 6195, 6235, 6245, 6275, 6285, 6295, 6335, 6345, 6375, 6385, 6395, 6415, 6445,
     6465, 6475, 6495, 6515, 6545, 6565, 6575, 6595, 6615, 6645, 6665, 6675, 6695, 6715,
     6745, 6765, 6775, 6795, 6815, 6845, 6865, 6875, 6895, 6915, 6945, 6965, 6975, 6995,
     7015, 7045, 7065, 7075, 7095, 7115, 7145, 7165, 7175, 7195, 7215, 7245, 7265, 7275,
     7295, 7315, 7345, 7365, 7375, 7395, 7415, 7445, 7465, 7475, 7495, 7515, 7545, 7565,
     7575, 7595, 7615, 7645, 7665, 7675, 7695, 7715, 7745, 7765, 7775, 7795, 7815, 7845,
     7865, 7875, 7895, 7915, 7945, 7965, 7975, 7995, 8015, 8045, 8065, 8075, 8095, 8115,
     8145, 8165, 8175, 8195, 8215, 8245, 8265, 8275, 8295, 8315, 8345, 8365, 8375, 8395,
     8415, 8445, 8465, 8475, 8495, 8515, 8545, 8565, 8575, 8595, 8615, 8645, 8665, 8675,
     8695, 8715, 8745, 8765, 8775, 8795, 8815, 8845, 8865, 8875, 8895, 8915, 8945, 8965,
     8975, 8995, 9015, 9045, 9065, 9075, 9095, 9115, 9145, 9165, 9175, 9195, 9215, 9245,
     9265, 9275, 9295, 9315, 9345, 9365, 9375, 9395, 9415, 9445, 9465, 9475, 9495, 9515,
     9545, 9565, 9575, 9595, 9615, 9645, 9665, 9675, 9695, 9715, 9745, 9765, 9775, 9795,
     9815, 9845, 9865, 9875, 9895, 9915, 9945, 9965, 9975, 9995}

\* A faulty format, which cuts the second decimal off instead of rounding
fmt1_cut(k) ==
    digits(k \div 100) \o <<".">> \o digits((k \div 10) % 10)

\* f"{s:.1f}" for the float of a score k >= 0 in units of 0.01
fmt1(k) ==
    LET fl == k \div 10
        t  == IF k % 10 < 5 THEN fl
              ELSE IF k % 10 > 5 THEN fl + 1
              ELSE IF k \in FMT1_TIES_UP THEN fl + 1 ELSE fl
    IN  digits(t \div 10) \o <<".">> \o digits(t % 10)

\* f"{s:.1f}" if s is not None else "null"
fmt_score(s) == IF s = NoScore THEN <<"n","u","l","l">> ELSE fmt1(s[1])

\* sep.join(parts) for a sequence of strings
RECURSIVE join(_, _)
join(sep, parts) ==
    IF parts = <<>> THEN <<>>
    ELSE IF Len(parts) = 1 THEN parts[1]
    ELSE parts[1] \o sep \o join(sep, Tail(parts))

\* [f(m, s) for m in models for s in m["scores"]]: the slots, model-major
RECURSIVE flat_scores(_)
flat_scores(models) ==
    IF models = <<>> THEN <<>>
    ELSE Head(models).scores \o flat_scores(Tail(models))

\* generate_checksum(data) of agent_trs.py
generate_checksum(data) ==
    LET names  == join(<<"|">>, [i \in 1..Len(data.models) |-> data.models[i].name])
        slots  == flat_scores(data.models)
        scores == join(<<",">>, [i \in 1..Len(slots) |-> fmt_score(slots[i])])
    IN  sha256(names \o <<":">> \o scores)

(***************************************************************************)
(* agent_trs.py: the ledger.  data is the content of trs-data.json:        *)
(* [dates, models, checksum], a model being [name, rank, scores,           *)
(* category_count].  The fields that no step below reads (company,         *)
(* pillar_scores, run_at) are left out.  An index into a Python list is    *)
(* kept 0-based, as in the code; list[i] is seq[i + 1].                    *)
(***************************************************************************)

\* m[f] = v on a dict: the key is added when m does not have it
SetField(m, f, v) == [x \in DOMAIN m \cup {f} |-> IF x = f THEN v ELSE m[x]]

names_of(models) == [i \in 1..Len(models) |-> models[i].name]

\* dates.index(TODAY)
index_of(dates, d) ==
    (CHOOSE i \in 1..Len(dates) :
        dates[i] = d /\ \A j \in 1..(i - 1) : dates[j] # d) - 1

\* [None] * n
nones(n) == [i \in 1..n |-> NoScore]

\* A faulty date slot, which appends TODAY also when dates holds it
date_slot_append(data, TODAY) ==
    [data |-> [data EXCEPT !.dates = Append(data.dates, TODAY)],
     date_is_new |-> TRUE,
     today_idx |-> Len(data.dates)]

\* main, "Date slot": [data, date_is_new, today_idx]
date_slot(data, TODAY) ==
    IF \E i \in 1..Len(data.dates) : data.dates[i] = TODAY
    THEN [data |-> data, date_is_new |-> FALSE,
          today_idx |-> index_of(data.dates, TODAY)]
    ELSE [data |-> [data EXCEPT !.dates = Append(data.dates, TODAY)],
          date_is_new |-> TRUE,
          today_idx |-> Len(data.dates)]

\* auto_discover_models: pillar_counts
pillar_counts(all_results) ==
    [name \in UNION {DOMAIN all_results[p] : p \in DOMAIN all_results} |->
        Cardinality({p \in DOMAIN all_results : name \in DOMAIN all_results[p]})]

\* auto_discover_models: the "obvious garbage" filter (TRUE: the name is skipped)
is_garbage(name) ==
    \/ name = <<>>
    \/ Len(name) < 3
    \/ isdigit(remove_char(remove_char(name, "-"), "_"))

\* auto_discover_models: new_entry
new_entry(name, data) ==
    [name |-> name, rank |-> 999, scores |-> nones(Len(data.dates)),
     category_count |-> 0]

\* A faulty roster check, which finds no name in the roster
in_roster_never(name, existing_names) == FALSE

\* auto_discover_models: already in the roster (exact or fuzzy match)
in_roster(name, existing_names) == match_name(name, existing_names) # NoName

\* auto_discover_models: the loop over sorted(pillar_counts); todo is what is
\* left of it.  existing_names is the names of data["models"] at every point:
\* both are appended to together.
RECURSIVE discover_loop(_, _, _)
discover_loop(todo, counts, data) ==
    IF todo = <<>> THEN data
    ELSE LET name == Head(todo)
         IN  IF \/ is_garbage(name)
                \/ counts[name] < AUTO_DISCOVER_MIN_SOURCES
                \/ in_roster(name, names_of(data.models))
             THEN discover_loop(Tail(todo), counts, data)
             ELSE discover_loop(Tail(todo), counts,
                      [data EXCEPT !.models = Append(@, new_entry(name, data))])

\* auto_discover_models(data, all_results): data with the new models appended
auto_discover_models(data, all_results) ==
    LET counts == pillar_counts(all_results)
    IN  discover_loop(sorted(DOMAIN counts), counts, data)

\* while len(model["scores"]) < today_idx: model["scores"].append(None)
pad_to(scores, n) ==
    IF Len(scores) < n THEN scores \o nones(n - Len(scores)) ELSE scores

\* A faulty score write, which appends also when the date has its slot
apply_score_append(model, sc, cat_count, today_idx, date_is_new) ==
    [SetField(model, "category_count", cat_count)
        EXCEPT !.scores = Append(pad_to(model.scores, today_idx), <<sc>>)]

\* main, the body of "for model in models" up to the score's write
apply_score(model, sc, cat_count, today_idx, date_is_new) ==
    LET padded == pad_to(model.scores, today_idx)
        scores == IF date_is_new THEN Append(padded, <<sc>>)
                  ELSE IF today_idx < Len(padded)
                  THEN [padded EXCEPT ![today_idx + 1] = <<sc>>]
                  ELSE Append(padded, <<sc>>)
    IN  [SetField(model, "category_count", cat_count) EXCEPT !.scores = scores]

\* main: today_score(m), in units of 0.01
today_score(m, today_idx) ==
    IF today_idx < Len(m.scores) /\ m.scores[today_idx + 1] # NoScore
    THEN m.scores[today_idx + 1][1]
    ELSE -100

\* main: qualified
is_qualified(m) == m.category_count >= QUALIFICATION_MIN_CATEGORIES

\* A faulty rank update, which keeps only the qualified models
update_ranks_drop(models, today_idx) ==
    SelectSeq(models, LAMBDA m : m.category_count >= QUALIFICATION_MIN_CATEGORIES)

\* main, "Update ranks": ranked = sorted(qualified, key=today_score,
\* reverse=True), rank = the place in ranked.  Python's sort is stable, also
\* with reverse=True: a model comes after those of a greater key and after
\* the earlier ones of an equal key.
update_ranks(models, today_idx) ==
    LET Q == {i \in 1..Len(models) : is_qualified(models[i])}
        key(i) == today_score(models[i], today_idx)
        place(i) == 1 + Cardinality({j \in Q : key(j) > key(i)})
                      + Cardinality({j \in Q : j < i /\ key(j) = key(i)})
    IN  [i \in 1..Len(models) |->
            IF i \in Q THEN [models[i] EXCEPT !.rank = place(i)] ELSE models[i]]

\* A faulty stamp, which leaves the checksum of the loaded file
stamp_stale(data) == data

\* main, "Checksum": data["checksum"] = generate_checksum(data)
stamp(data) == [data EXCEPT !.checksum = generate_checksum(data)]

\* main(), from auto-discovery's result on: found is data with the
\* discovered models appended
main_after_discover(loaded, DRY_RUN, TODAY, slot, all_results, found) ==
    LET models      == found.models
        normalized  == [p \in PillarSet |->
                           trs_normalize_across_models(models, all_results[p])]
        comp        == [i \in 1..Len(models) |->
                           calculate_composite(models[i].name, normalized)]
        scored      == [i \in 1..Len(models) |->
                           apply_score(models[i], comp[i].score, comp[i].covered,
                                       slot.today_idx, slot.date_is_new)]
        ranked      == update_ranks(scored, slot.today_idx)
        final       == stamp([found EXCEPT !.models = ranked])
    IN  [outcome |-> IF DRY_RUN THEN "dry_run" ELSE "written",
         file    |-> IF DRY_RUN THEN loaded ELSE final,
         today   |-> TODAY,
         date_is_new |-> slot.date_is_new, today_idx |-> slot.today_idx,
         sc      |-> comp,
         added   |-> SubSeq(names_of(models), Len(loaded.models) + 1,
                            Len(models)),
         counts  |-> pillar_counts(all_results),
         cats    |-> [i \in 1..Len(models) |-> comp[i].covered],
         ranked  |-> {i \in 1..Len(models) : is_qualified(scored[i])},
         all_results |-> all_results]

\* main, the scrape loop: all_results when the loop reaches the pillar at
\* place `first`
scraped_before(merged, first) ==
    [p \in {Pillars[i] : i \in 1..(first - 1)} |-> merged[p].merged]

\* main(), from the scrape loop on: merged[p] is what
\* normalize_sources_and_merge returned for pillar p
main_after_scrape(loaded, DRY_RUN, TODAY, slot, merged) ==
    \* result, sources_hit = normalize_sources_and_merge(...) raises
    \* ValueError when the function returns the bare {}: all_results then
    \* holds the pillars of PILLAR_SCRAPERS before that one
    IF \E p \in PillarSet : ~merged[p].is_pair
    THEN [outcome |-> "crashed", file |-> loaded, today |-> TODAY,
          date_is_new |-> slot.date_is_new, today_idx |-> slot.today_idx,
          sc |-> EmptyMap, added |-> <<>>, counts |-> EmptyMap,
          cats |-> <<>>, ranked |-> {},
          all_results |-> scraped_before(merged,
              MinOf({i \in 1..Len(Pillars) : ~merged[Pillars[i]].is_pair}))]
    ELSE main_after_discover(loaded, DRY_RUN, TODAY, slot,
             [p \in PillarSet |-> merged[p].merged],
             auto_discover_models(slot.data, [p \in PillarSet |-> merged[p].merged]))

\* main(), from "Load data" to the write: what the run leaves in
\* trs-data.json (file), and what it computed on the way (sc: the composite
\* and category count of every model; added: the names that auto-discovery
\* appended; counts: auto_discover_models' pillar_counts; cats: the category
\* count of every model; ranked: the models of `ranked`, by their index;
\* all_results: the merged raw values of every pillar).
\* scrape[p] is what the scrapers of pillar p return, in the order of
\* PILLAR_SCRAPERS[p].
main(loaded, TODAY, scrape, DRY_RUN) ==
    main_after_scrape(loaded, DRY_RUN, TODAY, date_slot(loaded, TODAY),
        [p \in PillarSet |-> normalize_sources_and_merge(scrape[p])])

(***************************************************************************)
(* scripts/trs_orchestrator.py.  raw_data, the dict that scrape_all()      *)
(* returns, is a sequence of [name, vals] in the dict's insertion order,   *)
(* vals[c] being NoScore (None) or <<v>> for a raw value v >= 0.           *)
(***************************************************************************)
MIN_CATEGORIES == 5

RECURSIVE ProdOver(_, _)
ProdOver(S, f) ==
    IF S = {} THEN 1
    ELSE LET x == CHOOSE y \in S : TRUE IN f[x] * ProdOver(S \ {x}, f)

\* normalize_scores: the categories that are normalized (some value, max != 0)
\* and the max of each
cat_max(raw_data, cat) ==
    MaxOf({raw_data[i].vals[cat][1] :
              i \in {j \in 1..Len(raw_data) : raw_data[j].vals[cat] # NoScore}})

cat_live(raw_data, cat) ==
    /\ \E i \in 1..Len(raw_data) : raw_data[i].vals[cat] # NoScore
    /\ cat_max(raw_data, cat) # 0

\* normalize_scores(raw_data)[model]: per category None, or the value
\* (val / max_val) * 100 kept as the fraction 100 * num / den (it is not rounded)
normalize_scores(raw_data) ==
    [i \in 1..Len(raw_data) |->
        [name |-> raw_data[i].name,
         vals |-> [c \in PillarSet |->
                     IF cat_live(raw_data, c) /\ raw_data[i].vals[c] # NoScore
                     THEN <<[num |-> raw_data[i].vals[c][1],
                             den |-> cat_max(raw_data, c)]>>
                     ELSE NoScore]]]

\* The order of the keys of normalize_scores' result: a model is inserted at
\* its first normalized value, categories outermost; the models without any
\* come last, in raw_data's order.
RECURSIVE insertion_order(_, _, _)
insertion_order(normalized, cats, seen) ==
    IF cats = <<>>
    THEN seen \o SelectSeq([i \in 1..Len(normalized) |-> i],
                           LAMBDA i : \A k \in 1..Len(seen) : seen[k] # i)
    ELSE LET fresh == SelectSeq([i \in 1..Len(normalized) |-> i],
                          LAMBDA i : /\ normalized[i].vals[Head(cats)] # NoScore
                                     /\ \A k \in 1..Len(seen) : seen[k] # i)
         IN  insertion_order(normalized, Tail(cats), seen \o fresh)

\* compute_trs(normalized_data): None, or the score in units of 0.01
\* (round(trs, 1) is a multiple of 0.1)
compute_trs(vals) ==
    LET available == {c \in PillarSet : vals[c] # NoScore}
    IN  IF Cardinality(available) < MIN_CATEGORIES THEN NoScore
        ELSE
        LET total_weight == SumOver(available, WEIGHTS)
            P == ProdOver(available, [c \in available |-> vals[c][1].den])
            \* sum of (num / den) * weight, as a fraction over P
            N == SumOver(available,
                     [c \in available |->
                        vals[c][1].num * WEIGHTS[c] * (P \div vals[c][1].den)])
        IN  <<10 * MulDivRound(N, 1000, P * total_weight)>>

\* generate_checksum(models) of scripts/trs_orchestrator.py
orch_generate_checksum(models) ==
    LET names_str  == join(<<"|">>, names_of(models))
        slots      == flat_scores(models)
        scores_str == join(<<",">>, [i \in 1..Len(slots) |-> fmt_score(slots[i])])
    IN  sha256(names_str \o <<":">> \o scores_str)

\* trs_scores.get(name): trs_scores as a sequence of [name, trs]
trs_get(trs_scores, name) ==
    IF \E i \in 1..Len(trs_scores) : trs_scores[i].name = name
    THEN (CHOOSE t \in {trs_scores[i] : i \in 1..Len(trs_scores)} : t.name = name).trs
    ELSE NoScore

\* update_trs_data, STEP 6, one existing model
update_existing(model_obj, new_score, replacing, date_index, num_dates) ==
    LET s1 == IF replacing
              THEN [pad_to(model_obj.scores, num_dates) EXCEPT ![date_index + 1] = new_score]
              ELSE Append(model_obj.scores, new_score)
        \* "Validate array length"
        s2 == IF Len(s1) # num_dates
              THEN SubSeq(pad_to(s1, num_dates), 1, num_dates)
              ELSE s1
    IN  [model_obj EXCEPT !.scores = s2]

\* update_trs_data, STEP 6, a model that trs-data.json does not hold yet
orch_new_model(model_name, score, num_dates) ==
    [name |-> model_name, rank |-> 0, scores |-> nones(num_dates - 1) \o <<score>>]

\* model["scores"][-1] if model["scores"] else None
latest(model) ==
    IF model.scores = <<>> THEN NoScore ELSE model.scores[Len(model.scores)]

\* update_trs_data, STEP 7: ranked.sort(key=lambda x: -x[0]) is stable
orch_ranks(models) ==
    LET R == {i \in 1..Len(models) : latest(models[i]) # NoScore}
        key(i) == latest(models[i])[1]
        place(i) == 1 + Cardinality({j \in R : key(j) > key(i)})
                      + Cardinality({j \in R : j < i /\ key(j) = key(i)})
    IN  [i \in 1..Len(models) |->
            [models[i] EXCEPT !.rank = IF i \in R THEN place(i) ELSE 0]]

\* compute_trs: len(available) of the model `name`, 0 when scrape_all() did
\* not return it
cats_of(normalized, name) ==
    LET hits == {i \in 1..Len(normalized) : normalized[i].name = name}
    IN  IF hits = {} THEN 0
        ELSE Cardinality({c \in PillarSet :
                             normalized[CHOOSE i \in hits : TRUE].vals[c] # NoScore})

\* update_trs_data(data_path, today), raw_data being what scrape_all() returns
update_trs_data(loaded, today, raw_data) ==
    LET aborted == [outcome |-> "aborted", file |-> loaded, today |-> today,
                    date_is_new |-> FALSE, today_idx |-> 0, sc |-> <<>>,
                    added |-> <<>>, counts |-> EmptyMap, cats |-> <<>>,
                    ranked |-> {}, all_results |-> EmptyMap]
    IN
    IF raw_data = <<>> THEN aborted
    ELSE
    LET normalized == normalize_scores(raw_data)
        order      == insertion_order(normalized, Pillars, <<>>)
        all_trs    == [k \in 1..Len(order) |->
                          [name |-> normalized[order[k]].name,
                           trs  |-> compute_trs(normalized[order[k]].vals)]]
        trs_scores == SelectSeq(all_trs, LAMBDA t : t.trs # NoScore)
    IN
    IF trs_scores = <<>> THEN aborted
    ELSE
    LET models     == loaded.models
        replacing  == \E i \in 1..Len(loaded.dates) : loaded.dates[i] = today
        date_index == IF replacing THEN index_of(loaded.dates, today) ELSE 0
        dates      == IF replacing THEN loaded.dates ELSE Append(loaded.dates, today)
        num_dates  == Len(dates)
        \* existing_models = {m["name"]: m ...}: of two models of one name the
        \* dict holds the later one
        keyed(i)   == \A j \in (i + 1)..Len(models) : models[j].name # models[i].name
        updated    == [i \in 1..Len(models) |->
                          IF keyed(i)
                          THEN update_existing(models[i],
                                   trs_get(trs_scores, models[i].name),
                                   replacing, date_index, num_dates)
                          ELSE models[i]]
        fresh      == SelectSeq(trs_scores,
                          LAMBDA t : \A i \in 1..Len(models) : models[i].name # t.name)
        new_models == [k \in 1..Len(fresh) |->
                          orch_new_model(fresh[k].name, fresh[k].trs, num_dates)]
        all_models == orch_ranks(updated \o new_models)
        checksum   == orch_generate_checksum(all_models)
        trs_data   == [dates |-> dates, models |-> all_models, checksum |-> checksum]
        \* STEP 9, "Final validation"
        valid      == \A i \in 1..Len(all_models) :
                          Len(all_models[i].scores) = num_dates
    IN  [outcome |-> IF valid THEN "written" ELSE "aborted",
         file    |-> IF valid THEN trs_data ELSE loaded,
         today   |-> today,
         date_is_new |-> ~replacing,
         today_idx |-> IF replacing THEN date_index ELSE num_dates - 1,
         sc      |-> [i \in 1..Len(all_models) |->
                         trs_get(trs_scores, all_models[i].name)],
         added   |-> names_of(new_models),
         counts  |-> EmptyMap,
         cats    |-> [i \in 1..Len(all_models) |->
                         cats_of(normalized, all_models[i].name)],
         ranked  |-> {i \in 1..Len(all_models) : latest(all_models[i]) # NoScore},
         all_results |-> EmptyMap]

\* A faulty normalization, which takes the greatest value for the best also
\* when the metric is inverted
normalize_across_models_max(raw_values, is_inverted) ==
    LET vals == {k \in DOMAIN raw_values :
                    raw_values[k] # NoScore /\ raw_values[k][1] > 0}
    IN  IF vals = {} THEN EmptyMap
        ELSE LET max_val == MaxOf({raw_values[k][1] : k \in vals})
             IN  [k \in vals |-> PercentE4(raw_values[k][1], max_val)]

\* normalize_across_models(raw_values, is_inverted) of agent_truscore.py;
\* raw_values[k] is NoScore (None) or <<v>>
normalize_across_models(raw_values, is_inverted) ==
    LET vals == {k \in DOMAIN raw_values :
                    raw_values[k] # NoScore /\ raw_values[k][1] > 0}
    IN  IF vals = {} THEN EmptyMap
        ELSE IF is_inverted
        THEN LET min_val == MinOf({raw_values[k][1] : k \in vals})
             IN  [k \in vals |-> PercentE4(min_val, raw_values[k][1])]
        ELSE LET max_val == MaxOf({raw_values[k][1] : k \in vals})
             IN  [k \in vals |-> PercentE4(raw_values[k][1], max_val)]

(***************************************************************************)
(* agent_trscode.py: scoring engine.  A model of trscode-data.json carries *)
(* raw_data, a dict from the raw field's name to None or <<v>>, v >= 0.    *)
(***************************************************************************)

\* m["raw_data"].get(raw_key) or 0.0
raw_or_zero(m, raw_key) ==
    IF raw_key \in DOMAIN m.raw_data /\ m.raw_data[raw_key] # NoScore
    THEN m.raw_data[raw_key][1]
    ELSE 0

\* normalize_across_models(models, raw_key) of agent_trscode.py; of two models
\* of one name the dict vals holds the later one
trscode_normalize_across_models(models, raw_key) ==
    LET names   == {models[i].name : i \in 1..Len(models)}
        last(n) == CHOOSE i \in 1..Len(models) :
                      /\ models[i].name = n
                      /\ \A j \in (i + 1)..Len(models) : models[j].name # n
        vals    == [n \in names |-> raw_or_zero(models[last(n)], raw_key)]
        top     == IF names = {} THEN 0 ELSE MaxOf(Range(vals))
    IN  IF top = 0 THEN [k \in names |-> 0]
        ELSE [k \in names |-> PercentE4(vals[k], top)]

\* WEIGHTS of agent_trscode.py, in units of 0.01
TRSCODE_WEIGHTS ==
    ("swebench_verified" :> 17) @@ ("swe_rebench" :> 13)
    @@ ("livecodebench" :> 15) @@ ("bigcodebench" :> 10)
    @@ ("terminal_bench_hard" :> 12) @@ ("swebench_pro" :> 8)
    @@ ("scicode" :> 15) @@ ("arena_code_elo" :> 10)

\* calculate_composite(model_name, normalized) of agent_trscode.py: the
\* score in units of 0.01
trscode_calculate_composite(model_name, normalized) ==
    LET get(mkey) == IF mkey \in DOMAIN normalized
                        /\ model_name \in DOMAIN normalized[mkey]
                     THEN normalized[mkey][model_name] ELSE 0
        \* sum of value * weight, in units of 10^-6
        total == SumOver(DOMAIN TRSCODE_WEIGHTS,
                     [mkey \in DOMAIN TRSCODE_WEIGHTS |->
                         get(mkey) * TRSCODE_WEIGHTS[mkey]])
    IN  MulDivRound(total, 1, 10000)

(***************************************************************************)
(* agent_truscore.py: scoring engine.                                      *)
(***************************************************************************)

\* WEIGHTS of agent_truscore.py, in units of 0.01
TRUSCORE_WEIGHTS ==
    ("factuality_simpleqa" :> 20) @@ ("factuality_newsguard" :> 20)
    @@ ("neutrality_trackingai" :> 25) @@ ("neutrality_anthropic" :> 5)
    @@ ("hallucination_vectara" :> 15)
    @@ ("hallucination_artificialanalysis" :> 5)
    @@ ("calibration_simpleqa" :> 10)

\* calculate_composite(model_name, normalized) of agent_truscore.py:
\* [score, covered], the score in units of 0.01
truscore_calculate_composite(model_name, normalized) ==
    LET available == {k \in DOMAIN TRUSCORE_WEIGHTS :
                         /\ k \in DOMAIN normalized
                         /\ model_name \in DOMAIN normalized[k]
                         /\ normalized[k][model_name] > 0}
    IN  IF available = {} THEN [score |-> 0, covered |-> 0]
        ELSE
        LET weight_sum == SumOver(available, TRUSCORE_WEIGHTS)
            \* sum of value * weight, in units of 10^-6
            weighted == SumOver(available,
                            [k \in available |->
                                normalized[k][model_name] * TRUSCORE_WEIGHTS[k]])
        IN  [score   |-> MulDivRound(weighted, 1, weight_sum * 100),
             covered |-> Cardinality(available)]

(***************************************************************************)
(* agent_truscore.py and agent_trscode.py: the local match_name and        *)
(* auto_discover_models, which have the same text in both but for          *)
(* s_stripped and the fields of the new entry.                             *)
(***************************************************************************)

\* s.split("/")[-1]
RECURSIVE after_last_slash(_)
after_last_slash(s) ==
    IF \A i \in 1..Len(s) : s[i] # "/" THEN s
    ELSE after_last_slash(Tail(s))

\* the local match_name from s and s_stripped on (agent_trscode.py has s
\* where agent_truscore.py has s_stripped)
local_match(s, s_stripped, existing) ==
    LET tok(x) == split_set(replace_char(replace_char(x, "-", " "), "_", " "))
        tier1 == {i \in 1..Len(existing) :
                     lower(existing[i]) = s \/ lower(existing[i]) = s_stripped}
        tier2 == {i \in 1..Len(existing) :
                     \/ contains(lower(existing[i]), s_stripped)
                     \/ contains(s_stripped, lower(existing[i]))}
        tier3 == {i \in 1..Len(existing) :
                     Cardinality(tok(s_stripped) \cap tok(lower(existing[i]))) >= 2}
    IN  IF tier1 # {} THEN first_of(existing, tier1)
        ELSE IF tier2 # {} THEN first_of(existing, tier2)
        ELSE first_of(existing, tier3)

\* match_name(scraped, existing) of agent_truscore.py
truscore_match_name(scraped, existing) ==
    local_match(strip(lower(scraped)), after_last_slash(strip(lower(scraped))),
                existing)

\* match_name of agent_tragents.py from s and s_stripped on: its second
\* tier tries s as well
tragents_match(s, s_stripped, existing) ==
    LET tok(x) == split_set(replace_char(replace_char(x, "-", " "), "_", " "))
        tier1 == {i \in 1..Len(existing) :
                     lower(existing[i]) = s \/ lower(existing[i]) = s_stripped}
        tier2 == {i \in 1..Len(existing) :
                     \/ contains(lower(existing[i]), s)
                     \/ contains(s, lower(existing[i]))
                     \/ contains(lower(existing[i]), s_stripped)
                     \/ contains(s_stripped, lower(existing[i]))}
        tier3 == {i \in 1..Len(existing) :
                     Cardinality(tok(s_stripped) \cap tok(lower(existing[i]))) >= 2}
    IN  IF tier1 # {} THEN first_of(existing, tier1)
        ELSE IF tier2 # {} THEN first_of(existing, tier2)
        ELSE first_of(existing, tier3)

\* match_name(scraped, existing) of agent_tragents.py
tragents_match_name(scraped, existing) ==
    tragents_match(strip(lower(scraped)), after_last_slash(strip(lower(scraped))),
                   existing)

\* match_name(scraped, existing) of agent_trscode.py
trscode_match_name(scraped, existing) ==
    local_match(strip(lower(scraped)), strip(lower(scraped)), existing)

\* auto_discover_models of agent_truscore.py and agent_trscode.py: the loop
\* over sorted(all_scraped); todo is what is left of it
RECURSIVE local_discover_loop(_, _, _)
local_discover_loop(agent, todo, data) ==
    IF todo = <<>> THEN data
    ELSE LET name  == Head(todo)
             found == IF agent = "agent_trscode"
                      THEN trscode_match_name(name, names_of(data.models))
                      ELSE truscore_match_name(name, names_of(data.models))
             entry == IF agent = "agent_trscode"
                      THEN [name |-> name, rank |-> 999,
                            scores |-> nones(Len(data.dates)),
                            source_count |-> 0, raw_data |-> EmptyMap]
                      ELSE [name |-> name, rank |-> 999,
                            scores |-> nones(Len(data.dates)),
                            source_count |-> 0]
         IN  IF is_garbage(name) \/ found # NoName
             THEN local_discover_loop(agent, Tail(todo), data)
             ELSE local_discover_loop(agent, Tail(todo),
                      [data EXCEPT !.models = Append(@, entry)])

\* auto_discover_models(data, all_results) of agent_truscore.py and
\* agent_trscode.py: data with the new models appended
local_auto_discover_models(agent, data, all_results) ==
    local_discover_loop(agent,
        sorted(UNION {DOMAIN all_results[k] : k \in DOMAIN all_results}), data)

(***************************************************************************)
(* web_agent/agent.py: the approval gate of run().  A tool call is         *)
(* [tool, args]; a message text is a string of characters.                 *)
(***************************************************************************)
PROTECTED_TOOLS == {"write_file", "edit_file", "git_push", "run_ddp"}

\* None, where the code has a tool call or None
NoToolCall == [tool |-> "None", args |-> "None"]

\* text.strip().lower() in (...)
is_approval(text) ==
    lower(strip(text)) \in
        {<<"y","e","s">>,
         <<"y">>,
         <<"y","e","a","h">>,
         <<"y","e","p">>,
         <<"g","o">>,
         <<"d","o"," ","i","t">>,
         <<"a","p","p","r","o","v","e","d">>,
         <<"a","p","p","r","o","v","e">>}

is_rejection(text) ==
    lower(strip(text)) \in
        {<<"n","o">>,
         <<"n">>,
         <<"n","o","p","e">>,
         <<"c","a","n","c","e","l">>,
         <<"s","t","o","p">>,
         <<"a","b","o","r","t">>}

\* keyword_intercept(text): the tool call of a known command, or None
keyword_intercept_lower(t) ==
    IF t \in {<<"s","t","a","t","u","s">>,
             <<"c","h","e","c","k"," ","s","t","a","t","u","s">>,
             <<"d","d","p"," ","s","t","a","t","u","s">>,
             <<"h","o","w"," ","a","r","e"," ","t","h","e"," ","d","d","p","s">>,
             <<"w","h","a","t","'","s"," ","t","h","e"," ","s","t","a","t","u","s">>,
             <<"w","h","a","t","s"," ","t","h","e"," ","s","t","a","t","u","s">>,
             <<"s","h","o","w"," ","s","t","a","t","u","s">>,
             <<"s">>}
    THEN [tool |-> "check_status", args |-> "{}"]
    ELSE IF t \in {<<"h","e","a","l","t","h">>,
             <<"s","i","t","e"," ","h","e","a","l","t","h">>,
             <<"c","h","e","c","k"," ","h","e","a","l","t","h">>,
             <<"a","n","y","t","h","i","n","g"," ","b","r","o","k","e","n">>,
             <<"h","e","a","l","t","h"," ","c","h","e","c","k">>,
             <<"i","s"," ","t","h","e"," ","s","i","t","e"," ","o","k">>,
             <<"s","i","t","e"," ","o","k">>}
    THEN [tool |-> "site_health", args |-> "{}"]
    ELSE IF (\E k \in {<<"s","h","o","w"," ","l","o","g">>,
                        <<"c","h","e","c","k"," ","l","o","g">>,
                        <<"d","d","p"," ","l","o","g">>,
                        <<"r","e","a","d"," ","l","o","g">>} : contains(t, k))
            \/ t = <<"l","o","g">>
    THEN [tool |-> "read_log", args |-> "{}"]
    ELSE IF \E k \in {<<"l","i","s","t"," ","f","i","l","e","s">>,
                        <<"w","h","a","t"," ","f","i","l","e","s">>,
                        <<"s","h","o","w"," ","f","i","l","e","s">>,
                        <<"l","s">>} : contains(t, k)
    THEN [tool |-> "list_files", args |-> "{}"]
    ELSE IF \E k \in {<<"b","r","a","i","n">>,
                        <<"s","h","o","w"," ","b","r","a","i","n">>,
                        <<"r","e","a","d"," ","b","r","a","i","n">>,
                        <<"m","e","m","o","r","y">>,
                        <<"s","h","o","w"," ","m","e","m","o","r","y">>} : contains(t, k)
    THEN [tool |-> "read_file", args |-> "brain"]
    ELSE NoToolCall

keyword_intercept(text) == keyword_intercept_lower(lower(strip(text)))

\* A faulty gate, which takes every message but a rejection for an approval
approval_gate_eager(pending_approval, text) ==
    IF is_rejection(text)
    THEN [pending_approval |-> NoToolCall, executed |-> <<>>]
    ELSE [pending_approval |-> NoToolCall, executed |-> <<pending_approval>>]

\* run, "APPROVAL GATE HANDLING": what is pending after the message, and the
\* tool calls that execute_tool ran
approval_gate(pending_approval, text) ==
    IF is_approval(text)
    THEN [pending_approval |-> NoToolCall, executed |-> <<pending_approval>>]
    ELSE IF is_rejection(text)
    THEN [pending_approval |-> NoToolCall, executed |-> <<>>]
    ELSE [pending_approval |-> pending_approval, executed |-> <<>>]

\* run, "HANDLE TOOL CALLS": for call in tool_calls, with the calls executed
\* so far; the loop breaks at the first protected tool, which becomes the
\* pending approval
RECURSIVE handle_tool_calls(_, _)
handle_tool_calls(tool_calls, executed) ==
    IF tool_calls = <<>>
    THEN [pending_approval |-> NoToolCall, executed |-> executed]
    ELSE IF Head(tool_calls).tool \in PROTECTED_TOOLS
    THEN [pending_approval |-> Head(tool_calls), executed |-> executed]
    ELSE handle_tool_calls(Tail(tool_calls), Append(executed, Head(tool_calls)))

\* TELEGRAM_CHAT_ID, the configured chat
TELEGRAM_CHAT_ID == "david"

\* run, the body of "for update in updates" from the chat's test on: text is
\* the stripped text, intercept is keyword_intercept(text), response is what
\* ollama_chat returns
handle_text(pending_approval, chat_id, text, intercept, response) ==
    IF chat_id # TELEGRAM_CHAT_ID \/ text = <<>>
    THEN [pending_approval |-> pending_approval, executed |-> <<>>]
    ELSE IF pending_approval # NoToolCall
    THEN approval_gate(pending_approval, text)
    ELSE IF intercept # NoToolCall
    THEN [pending_approval |-> pending_approval, executed |-> <<intercept>>]
    ELSE IF response.error
    THEN [pending_approval |-> pending_approval, executed |-> <<>>]
    ELSE handle_tool_calls(response.tool_calls, <<>>)

\* run, the body of "for update in updates"
handle_update(pending_approval, update, response) ==
    handle_text(pending_approval, update.chat_id, strip(update.text),
                keyword_intercept(strip(update.text)), response)

(***************************************************************************)
(* The other programs that store the checksum of a ledger: fix_integrity,  *)
(* fix_checksums and benchmark_update_feb15.                               *)
(***************************************************************************)
\* str(s) for the float of a score k >= 0 in units of 0.01: the shortest
\* decimal, with one digit after the point at least
str_float(k) ==
    digits(k \div 100) \o <<".">> \o
        (IF k % 10 = 0 THEN digits((k % 100) \div 10)
         ELSE digits((k % 100) \div 10) \o digits(k % 10))

\* fix_integrity.py, calculate_trainingrun_checksum: one score
fix_integrity_score(s) ==
    IF s = NoScore THEN <<"n","u","l","l">>
    ELSE IF s[1] % 100 = 0 THEN fmt1(s[1])
    ELSE str_float(s[1])

\* fix_integrity.py, calculate_trainingrun_checksum(data): hash_hex
calculate_trainingrun_checksum(data) ==
    LET names_str  == join(<<"|">>, [i \in 1..Len(data.models) |-> data.models[i].name])
        slots      == flat_scores(data.models)
        scores_str == join(<<",">>, [i \in 1..Len(slots) |-> fix_integrity_score(slots[i])])
    IN  sha256(names_str \o <<":">> \o scores_str)

\* json.dumps of a string without a character to escape
json_str(s) == <<"\"">> \o s \o <<"\"">>

\* json.dumps of a score
json_score(s) == IF s = NoScore THEN <<"n","u","l","l">> ELSE str_float(s[1])

\* json.dumps of a list, of the dumped items
json_list(items, item_sep) == <<"[">> \o join(item_sep, items) \o <<"]">>

\* the date i of the model as the file holds it, a string
date_str(i) == <<"d">> \o digits(i)

\* hexdigest() of a digest
hexdigest(d) == <<"s","h","a","2","5","6","(">> \o d.sha256_of \o <<")">>

\* json.dumps(model, sort_keys=True, separators=(item_sep, key_sep))
json_model(m, item_sep, key_sep) ==
    <<"{">>
    \o <<"\"", "c", "a", "t", "e", "g", "o", "r", "y", "_", "c", "o", "u", "n", "t", "\"">> \o key_sep \o digits(m.category_count) \o item_sep
    \o <<"\"", "n", "a", "m", "e", "\"">> \o key_sep \o json_str(m.name) \o item_sep
    \o <<"\"", "r", "a", "n", "k", "\"">> \o key_sep \o digits(m.rank) \o item_sep
    \o <<"\"", "s", "c", "o", "r", "e", "s", "\"">> \o key_sep
    \o json_list([j \in 1..Len(m.scores) |-> json_score(m.scores[j])], item_sep)
    \o <<"}">>

\* json.dumps(data, sort_keys=True, separators=(item_sep, key_sep)), the
\* key "checksum" kept or left out
json_dumps(data, keep_checksum, item_sep, key_sep) ==
    <<"{">>
    \o (IF keep_checksum
        THEN <<"\"", "c", "h", "e", "c", "k", "s", "u", "m", "\"">> \o key_sep \o json_str(hexdigest(data.checksum)) \o item_sep
        ELSE <<>>)
    \o <<"\"", "d", "a", "t", "e", "s", "\"">> \o key_sep
    \o json_list([i \in 1..Len(data.dates) |-> json_str(date_str(data.dates[i]))], item_sep)
    \o item_sep
    \o <<"\"", "m", "o", "d", "e", "l", "s", "\"">> \o key_sep
    \o json_list([i \in 1..Len(data.models) |-> json_model(data.models[i], item_sep, key_sep)],
                 item_sep)
    \o <<"}">>

\* fix_checksums.py, fix_file_checksum: new_checksum
fix_file_checksum(data) == sha256(json_dumps(data, FALSE, <<",">>, <<":">>))

\* benchmark_update_feb15.py, generate_trs_scores: data['checksum'] of the
\* ledger data that it stamps
benchmark_update_checksum(data) == sha256(json_dumps(data, TRUE, <<",", " ">>, <<":", " ">>))

(***************************************************************************)
(* daily_runner.py: the agents run one after another.                      *)
(***************************************************************************)
\* list(ENABLED.keys()), the keys of the dict in the order it is written in
EnabledKeys == <<"trscode", "trfcast", "trs", "truscore", "tragents">>

ScoreKeys == {EnabledKeys[k] : k \in 1..Len(EnabledKeys)}

\* ENABLED (a reserved word of TLA+), as the file has it
Enabled == [k \in ScoreKeys |-> TRUE]

\* main: scores_to_run, where score is args.score or "None"
scores_to_run_of(score) == IF score = "None" THEN EnabledKeys ELSE <<score>>

\* run_agent: exists is os.path.exists(script), returncode the exit code of
\* the script
run_agent(exists, returncode) ==
    IF ~exists THEN FALSE ELSE returncode = 0

\* main as it enters the loop
main_parsed(enabled, score) ==
    [pc |-> "loop", Enabled |-> enabled, score |-> score,
     scores_to_run |-> scores_to_run_of(score), i |-> 1,
     results |-> <<>>, calls |-> <<>>, any_enabled |-> FALSE, exit |-> <<>>]

\* A faulty loop, which ends at the first agent that fails
runner_loop_body_break(r, score_key, exists, returncode) ==
    IF ~r.Enabled[score_key]
    THEN [r EXCEPT !.results = Append(@, <<score_key, "disabled">>), !.i = @ + 1]
    ELSE [r EXCEPT
            !.any_enabled = TRUE,
            !.calls = Append(@, [score_key |-> score_key, exists |-> exists,
                                 returncode |-> returncode]),
            !.results = Append(@, <<score_key, IF run_agent(exists, returncode)
                                                THEN "ok" ELSE "failed">>),
            !.i = IF run_agent(exists, returncode) THEN @ + 1
                  ELSE Len(r.scores_to_run) + 1]

\* main, the body of "for score_key in scores_to_run"; calls holds the calls
\* of run_agent, results the items of the dict in the order of insertion
runner_loop_body(r, score_key, exists, returncode) ==
    IF ~r.Enabled[score_key]
    THEN [r EXCEPT !.results = Append(@, <<score_key, "disabled">>), !.i = @ + 1]
    ELSE [r EXCEPT
            !.any_enabled = TRUE,
            !.calls = Append(@, [score_key |-> score_key, exists |-> exists,
                                 returncode |-> returncode]),
            !.results = Append(@, <<score_key, IF run_agent(exists, returncode)
                                                THEN "ok" ELSE "failed">>),
            !.i = @ + 1]

\* main after the loop: failed, and the exit status (sys.exit(1), or the end
\* of main)
runner_exit(r) ==
    LET failed == {k \in 1..Len(r.results) : r.results[k][2] = "failed"}
    IN  [r EXCEPT !.pc = "exited", !.exit = IF failed # {} THEN <<1>> ELSE <<0>>]

(***************************************************************************)
(* The state: trs-data.json, and the record of the last run.               *)
(***************************************************************************)
VARIABLES
    ledger,   \* the content of trs-data.json
    run,      \* the last run: the program, what it loaded, what it computed
    runs,     \* the number of runs so far
    call,     \* a function under test: [fn, in, out, done]
    disk,     \* the write of trs-data.json: [pc, data, content]
    web,      \* web_agent/agent.py: [pending_approval, update, before, executed]
    runner    \* daily_runner.py: main, [pc, Enabled, score, scores_to_run, i, results, calls, exit]

vars == <<ledger, run, runs, call, disk, web, runner>>

MaxRuns == 2
MaxDate == 3

\* TODAY / today: the dates of the runs
Dates == 1..MaxDate

\* trs-data.json before the first run
InitLedgers ==
    {stamp([dates  |-> <<1>>,
            models |-> <<[name |-> N_GPT4o, rank |-> 1, scores |-> <<<<8000>>>>,
                          category_count |-> 7],
                         [name |-> N_O3, rank |-> 2, scores |-> <<<<7000>>>>,
                          category_count |-> 7]>>,
            checksum |-> sha256(<<>>)]),
     stamp([dates  |-> <<1, 2>>,
            models |-> <<[name |-> N_GPT4o, rank |-> 1,
                          scores |-> <<<<8000>>, <<8123>>>>, category_count |-> 7],
                         [name |-> N_O3, rank |-> 2,
                          scores |-> <<NoScore, <<7000>>>>, category_count |-> 5]>>,
            checksum |-> sha256(<<>>)])}

NoRun(loaded) ==
    [prog |-> "none", outcome |-> "none", before |-> loaded, today |-> 0,
     date_is_new |-> FALSE, today_idx |-> 0, sc |-> <<>>, added |-> <<>>,
     counts |-> EmptyMap, cats |-> <<>>, ranked |-> {},
     all_results |-> EmptyMap]

NoCall == [fn |-> "none", in |-> <<>>, out |-> <<>>, done |-> FALSE]

\* What the scrapers of PILLAR_SCRAPERS return in one run: the roster's two
\* models with the raw values v, the names of X in `spread` pillars, two
\* sources for "knowledge"; `gap` is a pillar whose only source returned {}
\* ("empty") or only a name that no model has ("unmatched")
scrape_of(v, X, spread, gap) ==
    [p \in PillarSet |->
        LET base == (N_GPT4o :> v[1]) @@ (N_O3 :> v[2])
            ext  == IF p = "safety" \/ (spread = 2 /\ p = "reasoning")
                    THEN [n \in X |-> 30] ELSE EmptyMap
        IN  IF p = "coding" /\ gap = "empty" THEN <<EmptyMap>>
            ELSE IF p = "coding" /\ gap = "unmatched" THEN <<(N_12_34 :> 5)>>
            ELSE IF p = "knowledge"
            THEN <<base @@ ext, (N_GPT4o :> 80) @@ (N_O3 :> 60)>>
            ELSE <<base @@ ext>>]

\* A run in which every source reports the first model under the name n
scrape_as(n, v1, v2) == [p \in PillarSet |-> <<(n :> v1) @@ (N_O3 :> v2)>>]

\* A run in which every source reports the name n alone
scrape_only(n, v) == [p \in PillarSet |-> <<(n :> v)>>]

Scrapes ==
    {scrape_of(<<90, 45>>, {}, 2, "none"),
     scrape_of(<<45, 90>>, {N_Nova}, 2, "none"),
     scrape_of(<<90, 45>>, {N_Nova, N_Nova_thinking}, 2, "none"),
     scrape_of(<<90, 45>>, {N_org_gpt4o, N_o3, N_12_34}, 2, "none"),
     scrape_of(<<45, 90>>, {N_Nova, N_Zed_v2}, 2, "none"),
     scrape_of(<<90, 45>>, {N_Nova}, 1, "none"),
     scrape_of(<<90, 45>>, {N_Nova}, 2, "unmatched"),
     scrape_of(<<90, 45>>, {}, 2, "empty"),
     scrape_as(N_org_gpt4o, 90, 45),
     scrape_only(N_12_34, 5)}

\* One model of scrape_all()'s result: the raw value v in the categories cats
raw_model(name, v, cats) ==
    [name |-> name, vals |-> [c \in PillarSet |-> IF c \in cats THEN <<v>> ELSE NoScore]]

FiveCats == PillarSet \ {"efficiency", "usage_adoption"}
FourCats == FiveCats \ {"knowledge"}

\* What scrape_all() returns in one run
RawData ==
    {<<>>,
     <<raw_model(N_GPT4o, 4, PillarSet), raw_model(N_O3, 2, PillarSet)>>,
     <<raw_model(N_O3, 4, FiveCats), raw_model(N_GPT4o, 3, FourCats)>>,
     <<raw_model(N_O3, 4, FourCats)>>,
     <<raw_model(N_Nova, 3, PillarSet), raw_model(N_GPT4o, 4, FiveCats)>>,
     <<raw_model(N_o3, 1, FiveCats), raw_model(N_Nova, 2, FourCats),
       raw_model(N_Zed_v2, 4, PillarSet)>>}

\* json.dump(data, f): the text, as the chunks that json.dump hands to
\* f.write one after another (here one chunk for a key of data with its value)
dumps(data) ==
    <<[text |-> "{"],
      [text |-> "dates", value |-> data.dates],
      [text |-> "models", value |-> data.models],
      [text |-> "checksum", value |-> data.checksum],
      [text |-> "}"]>>

\* No write under way: the file holds the text of data
NoWrite(data) == [pc |-> "idle", data |-> data, content |-> dumps(data)]

\* The web agent as run() starts it: nothing pending, no update handled
WebStart ==
    [pending_approval |-> NoToolCall,
     update   |-> [chat_id |-> "None", text |-> <<>>],
     before   |-> NoToolCall,
     executed |-> <<>>]

\* daily_runner.py before it is started
RunnerIdle ==
    [pc |-> "idle", Enabled |-> Enabled, score |-> "None",
     scores_to_run |-> <<>>, i |-> 1,
     results |-> <<>>, calls |-> <<>>, any_enabled |-> FALSE, exit |-> <<>>]

Init ==
    /\ ledger \in InitLedgers
    /\ run = NoRun(ledger)
    /\ runs = 0
    /\ call = NoCall
    /\ disk = NoWrite(ledger)
    /\ web = WebStart
    /\ runner = RunnerIdle

\* The program prog ran and r is what it did: the file it left and what it
\* computed on the way
Ran(prog, r) ==
    /\ ledger' = r.file
    /\ run' = [prog |-> prog, outcome |-> r.outcome,
               before |-> ledger, today |-> r.today,
               date_is_new |-> r.date_is_new,
               today_idx |-> r.today_idx, sc |-> r.sc,
               added |-> r.added, counts |-> r.counts,
               cats |-> r.cats, ranked |-> r.ranked,
               all_results |-> r.all_results]

\* python3 agent_trs.py [--dry-run]
MainRun ==
    /\ runs < MaxRuns
    /\ \E TODAY \in Dates, scrape \in Scrapes, DRY_RUN \in BOOLEAN :
          Ran("agent_trs", main(ledger, TODAY, scrape, DRY_RUN))
    /\ runs' = runs + 1
    /\ UNCHANGED <<call, disk, web, runner>>

\* update_trs_data(data_path, today)
UpdateTrsData ==
    /\ runs < MaxRuns
    /\ \E today \in Dates, raw_data \in RawData :
          Ran("trs_orchestrator", update_trs_data(ledger, today, raw_data))
    /\ runs' = runs + 1
    /\ UNCHANGED <<call, disk, web, runner>>

Next == MainRun \/ UpdateTrsData

Spec == Init /\ [][Next]_vars

(***************************************************************************)
(* The pure functions, each applied to an input that Init draws.           *)
(***************************************************************************)
MaxSlots == 2

CkNames == {<<"A">>, <<"B">>, <<"A", "|", "B">>, <<"B", ":", "1", ",", "2">>}
CkScores == {NoScore, <<8800>>, <<8876>>, <<9123>>, <<9124>>}

\* the score lists of 1..n slots
ScoreLists(n) == UNION {[1..k -> CkScores] : k \in 1..n}

ck_ledger(models) ==
    [dates |-> [i \in 1..Len(models[1].scores) |-> i], models |-> models,
     checksum |-> sha256(<<>>)]

ck_model(name, scores) ==
    [name |-> name, rank |-> 999, scores |-> scores, category_count |-> 0]

\* the two ledgers of test_checksum
TestLedgers ==
    {ck_ledger(<<ck_model(<<"M","o","d","e","l"," ","A">>, <<<<9500>>, <<9610>>, NoScore>>),
                 ck_model(<<"M","o","d","e","l"," ","B">>, <<<<8800>>, NoScore, <<9050>>>>)>>),
     ck_ledger(<<ck_model(<<"T","e","s","t">>, <<<<8800>>, <<9000>>, <<9123>>>>)>>)}

CkLedgers ==
    {ck_ledger(<<ck_model(n, sl)>>) : n \in CkNames, sl \in ScoreLists(MaxSlots)}
    \cup {ck_ledger(<<ck_model(n1, <<s1>>), ck_model(n2, <<s2>>)>>) :
             n1 \in CkNames \ {<<"B">>}, n2 \in CkNames \ {<<"A">>},
             s1 \in CkScores, s2 \in CkScores}
    \cup TestLedgers

\* data with the name of model i, with slot j of model i, replaced
with_name(data, i, n) == [data EXCEPT !.models[i].name = n]
with_score(data, i, j, v) == [data EXCEPT !.models[i].scores[j] = v]

\* the ledgers that differ from data in exactly one name or one score slot
OneOff(data) ==
    ({with_name(data, i, n) : i \in 1..Len(data.models), n \in CkNames}
     \cup {with_score(data, i, j, v) : i \in 1..Len(data.models),
              j \in 1..Len(data.dates), v \in CkScores})
    \ {data}

RawNames == {N_GPT4o, N_O3, N_Nova}
RawValues == {NoScore, <<-2>>, <<0>>, <<1>>, <<3>>, <<2000001>>}

\* the dict of the entries of g that are not None
present(g) == [k \in {n \in DOMAIN g : g[n] # NoScore} |-> g[k][1]]

Rosters ==
    {<<ck_model(N_GPT4o, <<>>), ck_model(N_O3, <<>>), ck_model(N_Nova, <<>>)>>,
     <<ck_model(N_O3, <<>>), ck_model(N_GPT4o, <<>>)>>}

\* The arguments of the scoring functions of agent_truscore.py and
\* agent_trscode.py.  raw_data of a model of trscode-data.json has the raw
\* field missing, None, or a value.
PureInputsScoring ==
    LET RawKey    == "swebench_verified_pct"
        RawDatas  == {EmptyMap}
                     \cup {(RawKey :> v) : v \in {NoScore, <<0>>, <<1>>, <<3>>}}
        model(name, raw_data) ==
            [name |-> name, rank |-> 999, scores |-> <<>>, raw_data |-> raw_data]
        TrscodeRosters ==
            {<<model(N_GPT4o, x), model(N_O3, y), model(N_Nova, z)>> :
                x \in RawDatas, y \in RawDatas, z \in RawDatas}
        \* normalized, for the model "A": in the categories of `varied` no
        \* value, 0.0, 33.3333 or 100.0, in the others no value or 100.0
        Values == {EmptyMap, (<<"A">> :> 0), (<<"A">> :> 333333),
                   (<<"A">> :> 1000000)}
        Normalized(W, varied) ==
            {n \in [DOMAIN W -> Values] :
                \A k \in DOMAIN W \ varied : n[k] \in {EmptyMap, (<<"A">> :> 1000000)}}
    IN  {[fn |-> "trscode_normalize_across_models", in |-> <<ms, RawKey>>,
          out |-> <<>>, done |-> FALSE] : ms \in TrscodeRosters}
        \cup {[fn |-> "calculate_composite", in |-> <<"agent_trs", <<"A">>, n>>,
               out |-> <<>>, done |-> FALSE] : n \in Normalized(WEIGHTS, {"safety", "reasoning", "usage_adoption"})}
        \cup {[fn |-> "calculate_composite", in |-> <<"agent_truscore", <<"A">>, n>>,
               out |-> <<>>, done |-> FALSE] : n \in Normalized(TRUSCORE_WEIGHTS,
                        {"factuality_simpleqa", "neutrality_trackingai",
                         "neutrality_anthropic"})}
        \cup {[fn |-> "calculate_composite", in |-> <<"agent_trscode", <<"A">>, n>>,
               out |-> <<>>, done |-> FALSE] : n \in Normalized(TRSCODE_WEIGHTS,
                        {"swebench_verified", "swe_rebench", "swebench_pro"})}

\* The arguments of auto_discover_models: a roster of two models, and three
\* result maps, each with some of the scraped names.  The arguments of
\* match_name: a scraped name and a roster of one or two names.
PureInputsNames ==
    LET data == [dates |-> <<1>>,
                 models |-> <<[name |-> N_GPT4o, rank |-> 1, scores |-> <<NoScore>>],
                              [name |-> N_O3, rank |-> 2, scores |-> <<NoScore>>]>>,
                 checksum |-> sha256(<<>>)]
        dict(S) == [n \in S |-> 30]
        Results == {dict({}), dict({N_Nova}), dict({N_Nova, N_o3}),
                    dict({N_org_gpt4o, N_12_34}), dict({N_Zed_v2, N_GPT4o})}
        AllResults == [{"safety", "reasoning", "coding"} -> Results]
        RosterNames == {N_GPT4o, N_O3, N_Nova_Pro_2, N_Nova_2_Lite,
                        N_Claude_Opus_46, N_Grok_420}
        NameLists == {<<a>> : a \in RosterNames}
                     \cup {<<p[1], p[2]>> : p \in {q \in RosterNames \X RosterNames :
                                                     q[1] # q[2]}}
                     \cup {<<N_Grok_420, N_grok4>>, <<N_grok4, N_Grok_420>>,
                           <<N_Nova, N_nova>>, <<N_nova, N_Nova>>}
    IN  {[fn |-> "auto_discover_models", in |-> <<agent, data, r>>,
          out |-> <<>>, done |-> FALSE] :
            agent \in {"agent_trs", "agent_truscore", "agent_trscode"},
            r \in AllResults}
        \cup {[fn |-> "match_name", in |-> <<n, existing>>, out |-> <<>>,
               done |-> FALSE] : n \in Names, existing \in NameLists}

PureInputs ==
    UNION {{[fn |-> "generate_checksum", in |-> <<d, e>>, out |-> <<>>,
             done |-> FALSE] : e \in OneOff(d)} : d \in CkLedgers}
    \cup {[fn |-> "normalize_across_models", in |-> <<g, inv>>, out |-> <<>>,
           done |-> FALSE] : g \in [RawNames -> RawValues], inv \in BOOLEAN}
    \cup {[fn |-> "trs_normalize_across_models", in |-> <<ms, present(g)>>,
           out |-> <<>>, done |-> FALSE] :
             ms \in Rosters, g \in [RawNames -> RawValues]}
    \cup {[fn |-> "store_checksum", in |-> d, out |-> <<>>, done |-> FALSE] :
             d \in CkLedgers}
    \cup PureInputsScoring
    \cup PureInputsNames

InitPure ==
    /\ ledger \in InitLedgers
    /\ run = NoRun(ledger)
    /\ runs = 0
    /\ call \in PureInputs
    /\ disk = NoWrite(ledger)
    /\ web = WebStart
    /\ runner = RunnerIdle

\* generate_checksum of agent_trs.py and of scripts/trs_orchestrator.py, on
\* two ledgers
GenerateChecksum ==
    /\ call.fn = "generate_checksum" /\ ~call.done
    /\ call' = [call EXCEPT
                  !.out = [agent |-> <<generate_checksum(call.in[1]),
                                       generate_checksum(call.in[2])>>,
                           orch  |-> <<orch_generate_checksum(call.in[1].models),
                                       orch_generate_checksum(call.in[2].models)>>],
                  !.done = TRUE]
    /\ UNCHANGED <<ledger, run, runs, disk, web, runner>>

\* normalize_across_models of agent_truscore.py
NormalizeTruscore ==
    /\ call.fn = "normalize_across_models" /\ ~call.done
    /\ call' = [call EXCEPT !.out = normalize_across_models(call.in[1], call.in[2]),
                            !.done = TRUE]
    /\ UNCHANGED <<ledger, run, runs, disk, web, runner>>

\* normalize_across_models of agent_trs.py
NormalizeTrs ==
    /\ call.fn = "trs_normalize_across_models" /\ ~call.done
    /\ call' = [call EXCEPT !.out = trs_normalize_across_models(call.in[1], call.in[2]),
                            !.done = TRUE]
    /\ UNCHANGED <<ledger, run, runs, disk, web, runner>>

\* normalize_across_models of agent_trscode.py
NormalizeTrscode ==
    /\ call.fn = "trscode_normalize_across_models" /\ ~call.done
    /\ call' = [call EXCEPT
                  !.out = trscode_normalize_across_models(call.in[1], call.in[2]),
                  !.done = TRUE]
    /\ UNCHANGED <<ledger, run, runs, disk, web, runner>>

\* calculate_composite of agent_trs.py, agent_truscore.py and
\* agent_trscode.py (which returns the score alone)
CalculateComposite ==
    /\ call.fn = "calculate_composite" /\ ~call.done
    /\ call' = [call EXCEPT
                  !.out = CASE call.in[1] = "agent_trs" ->
                                 calculate_composite(call.in[2], call.in[3])
                            [] call.in[1] = "agent_truscore" ->
                                 truscore_calculate_composite(call.in[2], call.in[3])
                            [] call.in[1] = "agent_trscode" ->
                                 [score |-> trscode_calculate_composite(
                                                call.in[2], call.in[3])],
                  !.done = TRUE]
    /\ UNCHANGED <<ledger, run, runs, disk, web, runner>>

\* auto_discover_models of agent_trs.py, agent_truscore.py and
\* agent_trscode.py: out is newly_added
AutoDiscoverModels ==
    /\ call.fn = "auto_discover_models" /\ ~call.done
    /\ LET found == IF call.in[1] = "agent_trs"
                    THEN auto_discover_models(call.in[2], call.in[3])
                    ELSE local_auto_discover_models(call.in[1], call.in[2],
                                                    call.in[3])
       IN  call' = [call EXCEPT
                      !.out = SubSeq(names_of(found.models),
                                     Len(call.in[2].models) + 1,
                                     Len(found.models)),
                      !.done = TRUE]
    /\ UNCHANGED <<ledger, run, runs, disk, web, runner>>

\* match_name of model_names.py, of agent_truscore.py, of agent_trscode.py
\* and of agent_tragents.py
MatchName ==
    /\ call.fn = "match_name" /\ ~call.done
    /\ call' = [call EXCEPT
                  !.out = [model_names |-> match_name(call.in[1], call.in[2]),
                           truscore |-> truscore_match_name(call.in[1], call.in[2]),
                           trscode  |-> trscode_match_name(call.in[1], call.in[2]),
                           tragents |-> tragents_match_name(call.in[1], call.in[2])],
                  !.done = TRUE]
    /\ UNCHANGED <<ledger, run, runs, disk, web, runner>>

\* The checksum that each program stores in the ledger call.in
StoreChecksum ==
    /\ call.fn = "store_checksum" /\ ~call.done
    /\ call' = [call EXCEPT
                  !.out = [agent_trs        |-> generate_checksum(call.in),
                           trs_orchestrator |-> orch_generate_checksum(call.in.models),
                           fix_integrity    |-> calculate_trainingrun_checksum(call.in),
                           fix_checksums    |-> fix_file_checksum(call.in),
                           benchmark_update_feb15 |-> benchmark_update_checksum(call.in)],
                  !.done = TRUE]
    /\ UNCHANGED <<ledger, run, runs, disk, web, runner>>

NextPure ==
    \/ StoreChecksum
    \/ AutoDiscoverModels
    \/ MatchName
    \/ CalculateComposite
    \/ GenerateChecksum
    \/ NormalizeTruscore
    \/ NormalizeTrs
    \/ NormalizeTrscode

SpecPure == InitPure /\ [][NextPure]_vars

(***************************************************************************)
(* The write of trs-data.json, step by step:                               *)
(*     with open(DATA_FILE, "w") as f: json.dump(data, f, indent=2)        *)
(* in agent_trs.main, and the same with data_path in update_trs_data.      *)
(* ledger is the last version of the file that was written to its end,     *)
(* disk.content is what the file holds.  The process can stop at any       *)
(* point (an exception of f.write, a signal, the machine).                 *)
(***************************************************************************)

\* The run r reaches its write
Writes(r) ==
    /\ r.outcome = "written"
    /\ disk' = [disk EXCEPT !.pc = "open", !.data = r.file]

\* A run of agent_trs.main or of update_trs_data reaches its write with data
ReachWrite ==
    /\ disk.pc = "idle"
    /\ \E TODAY \in Dates :
          \/ \E scrape \in Scrapes :
                Writes(main(ledger, TODAY, scrape, FALSE))
          \/ \E raw_data \in RawData :
                Writes(update_trs_data(ledger, TODAY, raw_data))
    /\ UNCHANGED <<ledger, run, runs, call, web, runner>>

\* open(DATA_FILE, "w"): the file is truncated
OpenW ==
    /\ disk.pc = "open"
    /\ disk' = [disk EXCEPT !.pc = "dump", !.content = <<>>]
    /\ UNCHANGED <<ledger, run, runs, call, web, runner>>

\* json.dump: the next chunk is written
WriteChunk ==
    /\ disk.pc = "dump"
    /\ Len(disk.content) < Len(dumps(disk.data))
    /\ disk' = [disk EXCEPT
                  !.content = Append(@, dumps(disk.data)[Len(@) + 1])]
    /\ UNCHANGED <<ledger, run, runs, call, web, runner>>

\* the end of the with block: the file is closed with the whole text
CloseW ==
    /\ disk.pc = "dump"
    /\ Len(disk.content) = Len(dumps(disk.data))
    /\ disk' = [disk EXCEPT !.pc = "closed"]
    /\ ledger' = disk.data
    /\ UNCHANGED <<run, runs, call, web, runner>>

\* the process stops during the write
StopW ==
    /\ disk.pc \in {"open", "dump"}
    /\ disk' = [disk EXCEPT !.pc = "stopped"]
    /\ UNCHANGED <<ledger, run, runs, call, web, runner>>

NextWrite == ReachWrite \/ OpenW \/ WriteChunk \/ CloseW \/ StopW

SpecWrite == Init /\ [][NextWrite]_vars

(***************************************************************************)
(* The web agent: run() handles the updates of Telegram one by one.        *)
(***************************************************************************)

\* The texts of the messages
Texts ==
    {<<"y","e","s">>,
     <<" ","Y","e","s"," ">>,
     <<"g","o">>,
     <<"n","o">>,
     <<"s","t","a","t","u","s">>,
     <<"t","o","o","l","s">>,
     <<"p","u","s","h"," ","i","t">>,
     <<>>,
     <<"y">>,
     <<"f","i","x"," ","t","h","e"," ","p","a","g","e">>}

\* The updates that tg_get_updates returns: a message of the configured chat
\* or of another one
Updates == [chat_id : {TELEGRAM_CHAT_ID, "other"}, text : Texts]

\* The tool calls that the model asks for
ToolCalls ==
    {[tool |-> "write_file", args |-> "index.html"],
     [tool |-> "git_push", args |-> "index.html"],
     [tool |-> "run_ddp", args |-> "all"],
     [tool |-> "check_status", args |-> "{}"]}

\* What ollama_chat returns: an error, a plain answer, or one or two tool calls
Responses ==
    {[error |-> TRUE, tool_calls |-> <<>>], [error |-> FALSE, tool_calls |-> <<>>]}
    \cup {[error |-> FALSE, tool_calls |-> <<c>>] : c \in ToolCalls}
    \cup {[error |-> FALSE, tool_calls |-> <<p[1], p[2]>>] : p \in ToolCalls \X ToolCalls}

\* The update was handled with the result r
Handled(update, r) ==
    web' = [pending_approval |-> r.pending_approval,
            update   |-> update,
            before   |-> web.pending_approval,
            executed |-> r.executed]

\* run: one update of the loop "for update in updates"
HandleUpdate ==
    /\ \E update \in Updates, response \in Responses :
          Handled(update, handle_update(web.pending_approval, update, response))
    /\ UNCHANGED <<ledger, run, runs, call, disk, runner>>

NextWeb == HandleUpdate

SpecWeb == Init /\ [][NextWeb]_vars

(***************************************************************************)
(* The daily runner: main of daily_runner.py, one agent per step.          *)
(***************************************************************************)

\* The switches: the file has every agent enabled, and tells to edit them
EnabledConfigs == [ScoreKeys -> BOOLEAN]

\* What run_agent meets: the script is missing (no exit code is read then),
\* or it is run and exits with 0 or with another code
AgentOutcomes ==
    {[exists |-> FALSE, returncode |-> 0],
     [exists |-> TRUE, returncode |-> 0],
     [exists |-> TRUE, returncode |-> 1]}

\* main: the arguments are parsed
RunnerStart ==
    /\ runner.pc = "idle"
    /\ \E enabled \in EnabledConfigs, score \in ScoreKeys \cup {"None"} :
          runner' = main_parsed(enabled, score)
    /\ UNCHANGED <<ledger, run, runs, call, disk, web>>

\* main: one agent of the loop
RunnerStep ==
    /\ runner.pc = "loop"
    /\ runner.i <= Len(runner.scores_to_run)
    /\ \E o \in AgentOutcomes :
          runner' = runner_loop_body(runner, runner.scores_to_run[runner.i],
                                     o.exists, o.returncode)
    /\ UNCHANGED <<ledger, run, runs, call, disk, web>>

\* main: the summary and the exit
RunnerExit ==
    /\ runner.pc = "loop"
    /\ runner.i > Len(runner.scores_to_run)
    /\ runner' = runner_exit(runner)
    /\ UNCHANGED <<ledger, run, runs, call, disk, web>>

NextRunner == RunnerStart \/ RunnerStep \/ RunnerExit

\* main is sequential: a step that can be taken is taken (a script that is
\* run returns)
SpecRunner == Init /\ [][NextRunner]_vars /\ WF_vars(NextRunner)

(***************************************************************************)
(* The properties.                                                         *)
(***************************************************************************)
Aligned(data) ==
    \A i \in 1..Len(data.models) : Len(data.models[i].scores) = Len(data.dates)

\* a run of agent_trs.main that wrote trs-data.json
MainWrote == run.prog = "agent_trs" /\ run.outcome = "written"

\* a run of update_trs_data that wrote trs-data.json
OrchWrote == run.prog = "trs_orchestrator" /\ run.outcome = "written"

\* C1 (ledger alignment): in the ledger that a run of agent_trs.main
\* persisted, every model, those that auto_discover_models added in the run
\* included, has as many scores as the ledger has dates.  The code does not
\* keep this: a model discovered in a run for a new date gets
\* [None] * len(dates) after the date was appended, and then one more score.
C1_LedgerAlignment == MainWrote => Aligned(ledger)

\* the composite that the last run computed for model i of the ledger: None,
\* or the score in units of 0.01
composite_of(i) ==
    IF run.prog = "agent_trs" THEN <<run.sc[i].score>> ELSE run.sc[i]

\* the models that the ledger held before the last run
Old == 1..Len(run.before.models)

\* the models that the last run added
New == (Len(run.before.models) + 1)..Len(ledger.models)

\* C2 (same-day replace): when a run (agent_trs.main or update_trs_data) that
\* wrote the ledger ran for a date that dates already held, dates is as long
\* as before and, for every model that was in the ledger, the slot at the
\* date's index holds the composite of this run and the scores list is not
\* longer than before.
C2_SameDayReplace ==
    (run.outcome = "written" /\ ~run.date_is_new) =>
        /\ Len(ledger.dates) = Len(run.before.dates)
        /\ \A i \in Old :
              /\ run.today_idx < Len(ledger.models[i].scores)
              /\ ledger.models[i].scores[run.today_idx + 1] = composite_of(i)
              /\ Len(ledger.models[i].scores) <= Len(run.before.models[i].scores)

\* C2's case: the second run of agent_trs.main for date 3, which the first
\* run appended, replaces a score by another
C2_Witness ==
    /\ MainWrote /\ ~run.date_is_new /\ runs = 2 /\ run.today = 3
    /\ \E i \in Old : ledger.models[i].scores[run.today_idx + 1]
                        # run.before.models[i].scores[run.today_idx + 1]

NoDuplicates(seq) == \A i, j \in 1..Len(seq) : i # j => seq[i] # seq[j]

IsPrefix(seq, of) == Len(seq) <= Len(of) /\ SubSeq(of, 1, Len(seq)) = seq

\* C3 (append-only date axis): after any sequence of runs, in any order of
\* their dates, dates holds no date twice, and the dates before the last run
\* are a prefix of the dates after it.
C3_DatesAppendOnly ==
    /\ NoDuplicates(ledger.dates)
    /\ IsPrefix(run.before.dates, ledger.dates)

\* C3's case: the runs for dates 3 and then 2 on a ledger of date 1
C3_Witness == ledger.dates = <<1, 3, 2>> /\ run.date_is_new

\* C4 (the stamp reflects the published state): in every ledger that a run
\* wrote, the stored checksum is the program's generate_checksum of the
\* models that the ledger holds.
C4_StampReflectsState ==
    /\ MainWrote => ledger.checksum = generate_checksum(ledger)
    /\ OrchWrote => ledger.checksum = orch_generate_checksum(ledger.models)

\* C4's case: a run changed the scores and added a model, and wrote
C4_Witness ==
    /\ run.outcome = "written" /\ run.added # <<>>
    /\ ledger.checksum # run.before.checksum

\* C7 (name uniqueness): the names of the ledger are pairwise distinct, and
\* match_name finds no name that auto_discover_models added among the names
\* that the roster held when it was added: those of the loaded ledger and
\* those added earlier in the pass.
C7_NameUniqueness ==
    /\ NoDuplicates(names_of(ledger.models))
    /\ run.prog = "agent_trs" =>
          \A k \in 1..Len(run.added) :
              match_name(run.added[k],
                         names_of(run.before.models) \o SubSeq(run.added, 1, k - 1))
                = NoName

\* C7's case: two pillars reported "Nova" and "Nova (thinking)", neither in
\* the roster; the pass added the first and with it knew the second
C7_Witness ==
    /\ MainWrote /\ run.added = <<N_Nova>>
    /\ N_Nova_thinking \in DOMAIN run.counts
    /\ run.counts[N_Nova_thinking] >= AUTO_DISCOVER_MIN_SOURCES

C9_DiscoveryBackfill ==
    run.outcome = "written" =>
        \A i \in New :
            /\ run.today_idx < Len(ledger.models[i].scores)
            /\ ledger.models[i].scores[run.today_idx + 1] = composite_of(i)
            /\ \A j \in 1..run.today_idx : ledger.models[i].scores[j] = NoScore

\* a call of generate_checksum that returned
ChecksumDone == call.fn = "generate_checksum" /\ call.done

\* C5 (digest sensitivity): two ledgers that differ in exactly one model name
\* or in exactly one score slot have different digests.  The code does not
\* keep this: the digest is taken of the scores written with one decimal,
\* and the composite is rounded to two.
C5_DigestSensitivity ==
    (ChecksumDone /\ call.in[2] \in OneOff(call.in[1])) =>
        call.out.agent[1] # call.out.agent[2]

\* parts joined by sep, built from the left
RECURSIVE Joined(_, _)
Joined(parts, sep) ==
    IF parts = <<>> THEN <<>>
    ELSE IF Len(parts) = 1 THEN parts[1]
    ELSE Joined(SubSeq(parts, 1, Len(parts) - 1), sep) \o <<sep>> \o parts[Len(parts)]

\* the fields of s between the characters sep
RECURSIVE Fields(_, _)
Fields(s, sep) ==
    IF \A i \in 1..Len(s) : s[i] # sep THEN <<s>>
    ELSE LET i == CHOOSE k \in 1..Len(s) :
                      s[k] = sep /\ \A j \in 1..(k - 1) : s[j] # sep
         IN  <<SubSeq(s, 1, i - 1)>> \o Fields(SubSeq(s, i + 1, Len(s)), sep)

\* the number that the decimal digits ds write
RECURSIVE Number(_)
Number(ds) ==
    IF ds = <<>> THEN 0
    ELSE 10 * Number(SubSeq(ds, 1, Len(ds) - 1)) + (ord[ds[Len(ds)]] - ord["0"])

\* f is digits, a point and one digit
OneDecimal(f) ==
    /\ Len(f) >= 3
    /\ f[Len(f) - 1] = "."
    /\ \A i \in (1..Len(f)) \ {Len(f) - 1} : IsDigit(f[i])

\* the value of such an f, in units of 0.01
ValueOf(f) ==
    100 * Number(SubSeq(f, 1, Len(f) - 2)) + 10 * Number(<<f[Len(f)]>>)

\* score k of the models, model-major and date-minor
RECURSIVE SlotAt(_, _)
SlotAt(models, k) ==
    IF k <= Len(models[1].scores) THEN models[1].scores[k]
    ELSE SlotAt(Tail(models), k - Len(models[1].scores))

RECURSIVE NumSlots(_)
NumSlots(models) ==
    IF models = <<>> THEN 0 ELSE Len(models[1].scores) + NumSlots(Tail(models))

\* digest is the hash of the canonical string of models
Canonical(digest, models) ==
    LET s     == digest.sha256_of
        names == Joined(names_of(models), "|")
        rest  == Fields(SubSeq(s, Len(names) + 2, Len(s)), ",")
    IN  /\ Len(s) > Len(names) + 1
        /\ SubSeq(s, 1, Len(names)) = names
        /\ s[Len(names) + 1] = ":"
        /\ Len(rest) = NumSlots(models)
        /\ \A k \in 1..Len(rest) :
              IF SlotAt(models, k) = NoScore THEN rest[k] = <<"n", "u", "l", "l">>
              ELSE /\ OneDecimal(rest[k])
                   /\ ValueOf(rest[k]) - SlotAt(models, k)[1] \in -5..5

\* the strings that test_checksum expects
TestCanonical(models) ==
    IF Len(models) = 2
    THEN <<"M","o","d","e","l"," ","A","|","M","o","d","e","l"," ","B",":",
           "9","5",".","0",",","9","6",".","1",",","n","u","l","l",",",
           "8","8",".","0",",","n","u","l","l",",","9","0",".","5">>
    ELSE <<"T","e","s","t",":","8","8",".","0",",","9","0",".","0",",",
           "9","1",".","2">>

\* C6 (canonical form of the digest): both generate_checksum hash the names
\* joined by "|" in the order of the models, then ":", then every score,
\* model by model and date by date, joined by ",": a score with one decimal
\* digit (the nearest: 88 as 88.0, 91.23 as 91.2), None as null.  On the
\* ledgers of test_checksum they hash the strings that the test expects.
C6_CanonicalForm ==
    ChecksumDone =>
        \A w \in 1..2 :
            /\ Canonical(call.out.agent[w], call.in[w].models)
            /\ Canonical(call.out.orch[w], call.in[w].models)
            /\ call.in[w] \in TestLedgers =>
                  /\ call.out.agent[w].sha256_of = TestCanonical(call.in[w].models)
                  /\ call.out.orch[w].sha256_of = TestCanonical(call.in[w].models)

\* C6's case: two models, their names not in sorted order and holding the
\* separators, a score that is rounded up and a None
C6_Witness ==
    /\ ChecksumDone
    /\ names_of(call.in[1].models) = <<<<"B", ":", "1", ",", "2">>, <<"A", "|", "B">>>>
    /\ call.in[1].models[1].scores = <<<<8876>>>>
    /\ call.in[1].models[2].scores = <<NoScore>>

\* the names with a positive raw value, of a call of either
\* normalize_across_models
Positive ==
    IF call.fn = "normalize_across_models"
    THEN {k \in DOMAIN call.in[1] :
             call.in[1][k] # NoScore /\ call.in[1][k][1] > 0}
    ELSE {k \in DOMAIN call.in[2] :
             /\ \E i \in 1..Len(call.in[1]) : call.in[1][i].name = k
             /\ call.in[2][k] > 0}

RawOf(k) ==
    IF call.fn = "normalize_across_models" THEN call.in[1][k][1] ELSE call.in[2][k]

\* k is the best performer: of the least positive value when the metric is
\* inverted, of the greatest otherwise
Best(k) ==
    IF call.fn = "normalize_across_models" /\ call.in[2]
    THEN \A n \in Positive : RawOf(k) <= RawOf(n)
    ELSE \A n \in Positive : RawOf(n) <= RawOf(k)

NormalizeDone ==
    /\ call.fn \in {"normalize_across_models", "trs_normalize_across_models"}
    /\ call.done

\* C10 (normalization boundary), as the claim states it: the best performer
\* gets exactly 100, every other result lies in (0, 100], and without a
\* positive value the result is the empty map.  Values are in units of 0.0001.
C10_NormalizationBoundary ==
    NormalizeDone =>
        IF Positive = {} THEN DOMAIN call.out = {}
        ELSE /\ \A k \in Positive : Best(k) => k \in DOMAIN call.out /\ call.out[k] = 1000000
             /\ \A k \in DOMAIN call.out : call.out[k] > 0 /\ call.out[k] <= 1000000

\* C10, amended: as above, but every other result lies in [0, 100]: the
\* result is rounded to 4 decimals, and is 0.0 for a value below 0.0000005 of
\* the best.
C10_NormalizationBoundaryClosed ==
    NormalizeDone =>
        IF Positive = {} THEN DOMAIN call.out = {}
        ELSE /\ \A k \in Positive : Best(k) => k \in DOMAIN call.out /\ call.out[k] = 1000000
             /\ \A k \in DOMAIN call.out : call.out[k] >= 0 /\ call.out[k] <= 1000000

\* C10's case: an inverted metric, the best at 100 and a positive value that
\* is normalized to 0.0
C10_Witness ==
    /\ call.fn = "normalize_across_models" /\ call.done /\ call.in[2]
    /\ \E k \in DOMAIN call.out : call.out[k] = 1000000
    /\ \E k \in DOMAIN call.out : call.out[k] = 0

(***************************************************************************)
(* C11  Absence propagation: in the normalization step of agent_trs,       *)
(* agent_truscore and agent_trscode, an entity that has no value, or a     *)
(* value that is not positive, for the category is absent from the         *)
(* normalized result (and so is never given a normalized value of 0).      *)
(***************************************************************************)
\* the entities of a finished normalization that have no positive raw value
Valueless ==
    CASE call.fn = "normalize_across_models" ->
           {k \in DOMAIN call.in[1] :
               call.in[1][k] = NoScore \/ call.in[1][k][1] <= 0}
      [] call.fn = "trs_normalize_across_models" ->
           {call.in[1][i].name : i \in 1..Len(call.in[1])}
           \ {k \in DOMAIN call.in[2] : call.in[2][k] > 0}
      [] call.fn = "trscode_normalize_across_models" ->
           {call.in[1][i].name : i \in
               {j \in 1..Len(call.in[1]) :
                   raw_or_zero(call.in[1][j], call.in[2]) <= 0}}
      [] OTHER -> {}

C11_AbsencePropagation ==
    (call.done /\ call.fn \in {"normalize_across_models",
                               "trs_normalize_across_models",
                               "trscode_normalize_across_models"})
    => \A k \in Valueless : k \notin DOMAIN call.out

(***************************************************************************)
(* C12  Proportional reweighting: in the calculate_composite of agent_trs, *)
(* agent_truscore and agent_trscode the composite of an entity is the sum, *)
(* over exactly the categories in which it has a present normalized value, *)
(* of value * weight / (the sum of the weights of those categories),       *)
(* rounded to the 2 decimals that the functions return; an entity present  *)
(* in exactly one category gets that category's normalized value.          *)
(***************************************************************************)
CompositeDone == call.done /\ call.fn = "calculate_composite"

WeightsOf(agent) ==
    CASE agent = "agent_trs"      -> WEIGHTS
      [] agent = "agent_truscore" -> TRUSCORE_WEIGHTS
      [] agent = "agent_trscode"  -> TRSCODE_WEIGHTS

\* the categories in which the entity of the call has a normalized value
PresentIn == {k \in DOMAIN call.in[3] : call.in[2] \in DOMAIN call.in[3][k]}

\* sum of value * weight / sum of weights over PresentIn, in units of 0.01
Reweighted ==
    LET W == WeightsOf(call.in[1])
    IN  MulDivRound(SumOver(PresentIn,
                        [k \in PresentIn |-> call.in[3][k][call.in[2]] * W[k]]),
                    1, SumOver(PresentIn, W) * 100)

C12_ProportionalReweighting ==
    (CompositeDone /\ PresentIn # {}) => call.out.score = Reweighted

(***************************************************************************)
(* C13  No data is not a zero score: when a model has no present           *)
(* normalized value in any pillar in a run of agent_trs.main, its category *)
(* count is 0 and its score slot for today is None, not a numeric 0.       *)
(***************************************************************************)
\* the models without a normalized value in any pillar in the last run
NoData == {i \in 1..Len(ledger.models) : run.sc[i].covered = 0}

C13_NoDataNotZero ==
    MainWrote =>
        \A i \in NoData :
            /\ ledger.models[i].category_count = 0
            /\ run.today_idx < Len(ledger.models[i].scores)
            /\ ledger.models[i].scores[run.today_idx + 1] = NoScore

(***************************************************************************)
(* C14  Qualification gate: in a run, a model is given a place in today's  *)
(* ranking if and only if the number of categories in which it has a       *)
(* present value is at least the configured minimum                        *)
(* (QUALIFICATION_MIN_CATEGORIES in agent_trs.main, MIN_CATEGORIES in      *)
(* update_trs_data).                                                       *)
(***************************************************************************)
\* the configured minimum of the program of the last run
MinCategories ==
    IF run.prog = "agent_trs" THEN QUALIFICATION_MIN_CATEGORIES ELSE MIN_CATEGORIES

\* the models with at least the minimum of categories in the last run
Qualified == {i \in 1..Len(ledger.models) : run.cats[i] >= MinCategories}

C14_QualificationGate ==
    run.outcome = "written" => run.ranked = Qualified

(***************************************************************************)
(* C15  Ranking order: after a run with k qualified models, their ranks    *)
(* are exactly the numbers 1..k with no repeats, a model with a strictly   *)
(* higher composite today has a strictly smaller rank, and two qualified   *)
(* models with equal composites are ranked in their order in the models    *)
(* list.                                                                   *)
(***************************************************************************)
\* the composite of today of a qualified model, in units of 0.01
Today(i) == composite_of(i)[1]

RankedInOrder(Q) ==
    /\ {ledger.models[i].rank : i \in Q} = 1..Cardinality(Q)
    /\ \A i, j \in Q :
          /\ i # j => ledger.models[i].rank # ledger.models[j].rank
          /\ Today(i) > Today(j) => ledger.models[i].rank < ledger.models[j].rank
          /\ (Today(i) = Today(j) /\ i < j)
                => ledger.models[i].rank < ledger.models[j].rank

C15_RankingOrder ==
    run.outcome = "written" => RankedInOrder(Qualified)

(***************************************************************************)
(* C16  Ranks are recomputed for every model every run: after a run, every *)
(* model that is not ranked today (no composite, or below the              *)
(* qualification minimum) carries the sentinel rank, and no rank number is *)
(* held by two models.                                                     *)
(***************************************************************************)
\* the rank of a model that is not ranked: 999 in agent_trs.py (new_entry),
\* 0 in update_trs_data
SentinelRank == IF run.prog = "agent_trs" THEN 999 ELSE 0

C16_RanksRecomputed ==
    run.outcome = "written" =>
        /\ \A i \in 1..Len(ledger.models) :
              i \notin Qualified => ledger.models[i].rank = SentinelRank
        /\ \A i, j \in 1..Len(ledger.models) :
              (i # j /\ ledger.models[i].rank = ledger.models[j].rank)
                 => ledger.models[i].rank = SentinelRank

(***************************************************************************)
(* C17  Minimum-source guard: in agent_trs, agent_truscore and             *)
(* agent_trscode, auto_discover_models adds a name to the roster only if   *)
(* the name is in at least 2 of the source/pillar result maps of the run;  *)
(* a name seen in a single map is never added.                             *)
(***************************************************************************)
DiscoverDone == call.fn = "auto_discover_models" /\ call.done

\* the number of result maps of the call that hold the name
SeenIn(name) ==
    Cardinality({k \in DOMAIN call.in[3] : name \in DOMAIN call.in[3][k]})

C17_MinimumSourceGuard ==
    DiscoverDone => \A i \in 1..Len(call.out) : SeenIn(call.out[i]) >= 2

(***************************************************************************)
(* C18  No guessing on ambiguity: when a raw name matches two or more      *)
(* different roster names in the tier where it first matches,              *)
(* model_names.match_name returns no match (None) instead of one of them.  *)
(***************************************************************************)
MatchDone == call.fn = "match_name" /\ call.done

\* the roster names that the raw name of the call matches in tier t: by the
\* canonical name, by containment of the normalized names, by two shared
\* tokens
Tier(t) ==
    LET existing   == call.in[2]
        canon      == canonicalize(call.in[1])
        canon_norm == normalize(canon)
    IN  CASE t = 1 ->
               {existing[i] : i \in {j \in 1..Len(existing) :
                   \/ lower(canonicalize(existing[j])) = lower(canon)
                   \/ lower(existing[j]) = lower(canon)}}
          [] t = 2 ->
               {existing[i] : i \in {j \in 1..Len(existing) :
                   \/ contains(normalize(existing[j]), canon_norm)
                   \/ contains(canon_norm, normalize(existing[j]))}}
          [] t = 3 ->
               {existing[i] : i \in {j \in 1..Len(existing) :
                   Cardinality(split_set(canon_norm)
                               \cap split_set(normalize(existing[j]))) >= 2}}

\* the matches of the tier where the raw name first matches
FirstTier ==
    IF Tier(1) # {} THEN Tier(1) ELSE IF Tier(2) # {} THEN Tier(2) ELSE Tier(3)

C18_NoGuessing ==
    (MatchDone /\ Cardinality(FirstTier) >= 2) => call.out.model_names = NoName

(***************************************************************************)
(* C19  Resolved values reach the canonical entity: in agent_trs, when a   *)
(* source reports a value under a raw name r for a category and            *)
(* match_name(r, roster) returns the roster entity E, that value is E's    *)
(* raw value for the category in normalization, in E's composite and in    *)
(* E's category count.                                                     *)
(***************************************************************************)
\* the roster entity that main's match_name gives the raw name r
Resolve(r) == match_name(r, names_of(run.before.models))

\* the raw names of pillar p that resolve to the roster entity E
RawNamesOf(p, E) == {r \in DOMAIN run.all_results[p] : Resolve(r) = E}

\* the run wrote the ledger, some value came under an alias of a roster
\* entity, and no entity has more than one raw name in a pillar
AliasRun ==
    /\ run.prog = "agent_trs" /\ run.outcome = "written"
    /\ \E p \in PillarSet : \E r \in DOMAIN run.all_results[p] :
          Resolve(r) # NoName /\ Resolve(r) # r
    /\ \A p \in PillarSet : \A i \in 1..Len(run.before.models) :
          Cardinality(RawNamesOf(p, run.before.models[i].name)) <= 1

\* the raw values of pillar p by roster entity; a name that resolves to no
\* entity keeps its value
Resolved(p) ==
    LET names == names_of(run.before.models)
        E(r)  == IF Resolve(r) = NoName THEN r ELSE Resolve(r)
        ents  == {E(r) : r \in DOMAIN run.all_results[p]}
    IN  [e \in ents |->
            run.all_results[p][CHOOSE r \in DOMAIN run.all_results[p] : E(r) = e]]

\* C19: every model's composite and category count are those of the
\* resolved values
C19_ResolvedValuesReachEntity ==
    AliasRun =>
        \A i \in 1..Len(ledger.models) :
            run.sc[i] = calculate_composite(ledger.models[i].name,
                            [p \in PillarSet |->
                                trs_normalize_across_models(ledger.models,
                                                            Resolved(p))])

(***************************************************************************)
(* C20  Source unavailable is not a failure: when every source of one      *)
(* category returns an empty map in a run of agent_trs while other         *)
(* categories have data, main runs to completion and persists the ledger,  *)
(* and that category contributes to no entity's composite or category      *)
(* count.                                                                  *)
(***************************************************************************)
\* the pillars for which the run merged a value
WithData == {p \in DOMAIN run.all_results : DOMAIN run.all_results[p] # {}}

\* a run of agent_trs in which a pillar has no value and another has
EmptyPillarRun ==
    /\ run.prog = "agent_trs"
    /\ WithData # {}
    /\ WithData # PillarSet

\* C20: the run of an empty pillar ends with the write (or as a dry run), the
\* ledger holds the run's date, and no model counts more categories than have
\* data
C20_SourceUnavailable ==
    EmptyPillarRun =>
        /\ run.outcome \in {"written", "dry_run"}
        /\ run.outcome = "written" =>
              \E i \in 1..Len(ledger.dates) : ledger.dates[i] = run.today
        /\ \A i \in 1..Len(run.cats) : run.cats[i] <= Cardinality(WithData)

(***************************************************************************)
(* C21  No qualified entities aborts the run: when after scoring no entity *)
(* meets the qualification gate, the run ends without the write and the    *)
(* ledger file is unchanged.                                               *)
(***************************************************************************)
\* the last run scored its models and none has the minimum of categories
NoneQualifies ==
    /\ run.outcome \in {"written", "dry_run", "aborted"}
    /\ \A i \in 1..Len(run.cats) : run.cats[i] < MinCategories

\* C21: a run in which no model qualifies writes nothing
C21_NoQualifiedAborts ==
    NoneQualifies => (run.outcome # "written" /\ ledger = run.before)

(***************************************************************************)
(* C22  Atomic persist: if writing the ledger fails or the process stops   *)
(* at any point during the write, the ledger file still holds the complete *)
(* previous version; no reader can observe an empty or half-written        *)
(* ledger.                                                                 *)
(***************************************************************************)
\* C22: at every point of a write, the file holds the whole text of the last
\* version that was written to its end
C22_AtomicPersist == disk.content = dumps(ledger)

(***************************************************************************)
(* C23  Corrupt ledger aborts before mutation: when the loaded ledger      *)
(* violates a structural invariant (some model's scores length differs     *)
(* from the dates length, or a duplicate name), the run aborts before      *)
(* changing dates, models or scores and writes nothing; it never pads,     *)
(* truncates or otherwise repairs the history and then persists it.        *)
(***************************************************************************)
\* the ledger that the last run loaded violates a structural invariant
LoadedCorrupt ==
    /\ run.prog # "none"
    /\ \/ ~Aligned(run.before)
       \/ ~NoDuplicates(names_of(run.before.models))

\* C23: a run that loaded such a ledger leaves the file as it was
C23_CorruptLedgerAborts ==
    LoadedCorrupt => (run.outcome # "written" /\ ledger = run.before)

(***************************************************************************)
(* C24  Single source of truth for model identity: for every raw name and  *)
(* every roster, the match_name of agent_trscode, of agent_truscore and of *)
(* agent_tragents returns the same result as model_names.match_name.       *)
(***************************************************************************)
C24_SingleSourceOfTruth ==
    MatchDone =>
        /\ call.out.trscode  = call.out.model_names
        /\ call.out.truscore = call.out.model_names
        /\ call.out.tragents = call.out.model_names

(***************************************************************************)
(* C25  Date-slot mode selection: a run operates in replace mode exactly   *)
(* when today's date is the last element of dates; in every other case     *)
(* (today absent, or today present at an earlier index) it operates in     *)
(* append mode and adds a new slot to dates and to every existing model's  *)
(* scores.                                                                 *)
(***************************************************************************)
\* today's date is the last of the dates that the last run loaded
TodayIsLast ==
    /\ run.before.dates # <<>>
    /\ run.before.dates[Len(run.before.dates)] = run.today

\* the last run replaced: dates is as it was
Replaced == ledger.dates = run.before.dates

\* the last run appended: dates and the scores of every model that was in
\* the ledger are longer by one
Appended ==
    /\ ledger.dates = Append(run.before.dates, run.today)
    /\ \A i \in 1..Len(run.before.models) :
          Len(ledger.models[i].scores) = Len(run.before.models[i].scores) + 1

\* C25: a run that wrote the ledger replaced when today is the last date,
\* and appended otherwise
C25_DateSlotMode ==
    run.outcome = "written" => IF TodayIsLast THEN Replaced ELSE Appended

(***************************************************************************)
(* C26  Approval gate: the web agent executes a protected tool only as the *)
(* direct response to an approval message from the configured chat         *)
(* received while that same tool call was the pending approval, and at     *)
(* most once per approval; a rejection, any other message, a keyword       *)
(* command or a message from another chat never causes a protected tool to *)
(* execute, and while an approval is pending no other tool is executed.    *)
(***************************************************************************)
\* the tool calls that the last update made execute_tool run
Executed == {web.executed[k] : k \in 1..Len(web.executed)}

\* the last update was an approval of the pending tool call by the chat
Approved ==
    /\ web.update.chat_id = TELEGRAM_CHAT_ID
    /\ is_approval(web.update.text)
    /\ web.before # NoToolCall

\* C26: a protected tool runs only on an approval, it is the pending call,
\* it runs once and is pending no longer; while a call is pending nothing
\* else runs
C26_ApprovalGate ==
    /\ \A c \in Executed :
          c.tool \in PROTECTED_TOOLS =>
              /\ Approved
              /\ web.executed = <<web.before>>
              /\ web.pending_approval = NoToolCall
    /\ web.before # NoToolCall => Executed \subseteq {web.before}
    /\ (web.before # NoToolCall /\ ~Approved) => Executed = {}

\* an approval made the pending protected tool run
C26_Witness ==
    /\ Approved
    /\ web.before.tool \in PROTECTED_TOOLS
    /\ web.executed = <<web.before>>

(***************************************************************************)
(* C27  Daily runner sequencing: daily_runner.main runs every selected     *)
(* enabled agent exactly once, one after another in ENABLED order, and     *)
(* still runs the later agents after an earlier one fails; it never runs a *)
(* disabled agent; and it exits with status 1 exactly when at least one    *)
(* agent run failed (non-zero exit code or missing script).                *)
(***************************************************************************)
\* the selected enabled agents, in the order of ENABLED
SelectedEnabled ==
    SelectSeq(EnabledKeys,
              LAMBDA k : (runner.score = "None" \/ runner.score = k) /\ runner.Enabled[k])

\* the agents that run_agent was called for, in the order of the calls
CalledKeys == [k \in 1..Len(runner.calls) |-> runner.calls[k].score_key]

\* a call of run_agent that failed
SomeFailed ==
    \E k \in 1..Len(runner.calls) :
        ~runner.calls[k].exists \/ runner.calls[k].returncode # 0

RunnerSafe ==
    /\ IsPrefix(CalledKeys, SelectedEnabled)
    /\ runner.pc = "exited" =>
          /\ CalledKeys = SelectedEnabled
          /\ runner.exit = IF SomeFailed THEN <<1>> ELSE <<0>>

\* C27: at every moment the agents run so far are the first of the selected
\* enabled agents in ENABLED order, each once; at the exit they are all of
\* them, and the status is 1 exactly when a run failed; and main, once
\* started, reaches its exit
C27_RunnerSequencing ==
    /\ []RunnerSafe
    /\ (runner.pc = "loop") ~> (runner.pc = "exited")

\* main exited after an agent failed and a later agent ran
C27_Witness ==
    /\ runner.pc = "exited"
    /\ Len(runner.calls) >= 2
    /\ runner.calls[1].returncode # 0
    /\ runner.calls[1].exists
    /\ \E k \in ScoreKeys : ~runner.Enabled[k]
    /\ runner.exit = <<1>>

(***************************************************************************)
(* C28  Whole-ledger idempotence: running agent_trs.main twice on the same *)
(* date with identical source results leaves the ledger (dates, model      *)
(* names, every scores list, ranks and checksum) equal to the ledger after *)
(* the first run, also when the first run appended the date and            *)
(* auto-discovered new models.                                             *)
(***************************************************************************)
\* the step is a run of agent_trs.main that repeats the run before it: the
\* same date and the same results of the sources, both written
RepeatedMainRun ==
    /\ run.prog = "agent_trs" /\ run.outcome = "written"
    /\ run'.prog = "agent_trs" /\ run'.outcome = "written"
    /\ runs' = runs + 1
    /\ run'.today = run.today
    /\ run'.all_results = run.all_results

\* C28: a run of agent_trs.main that repeats the run before it leaves the
\* ledger as the first run wrote it
C28_WholeLedgerIdempotence == [][RepeatedMainRun => ledger' = ledger]_vars

(***************************************************************************)
(* C29  All checksum writers agree: for every ledger, each program in the  *)
(* repository that stores the ledger's checksum field (the agents'         *)
(* generate_checksum, fix_integrity.calculate_trainingrun_checksum,        *)
(* fix_checksums.fix_file_checksum, benchmark_update_feb15) stores the     *)
(* same value, namely the canonical names-and-scores digest, so a ledger   *)
(* stamped by any of them passes a reader's recompute-and-compare check.   *)
(***************************************************************************)
\* the checksums of a ledger were computed
StoreDone == call.fn = "store_checksum" /\ call.done

\* C29: every program stores the digest that generate_checksum stores
C29_WritersAgree ==
    StoreDone =>
        /\ call.out.trs_orchestrator = call.out.agent_trs
        /\ call.out.fix_integrity = call.out.agent_trs
        /\ call.out.fix_checksums = call.out.agent_trs
        /\ call.out.benchmark_update_feb15 = call.out.agent_trs

(***************************************************************************)
(* C30  Resolver reflexivity: for every roster of pairwise distinct names  *)
(* (including one that holds both an alias spelling and its canonical      *)
(* name, or two names equal up to case) and every name n in it,            *)
(* model_names.match_name(n, roster) returns n itself and not another      *)
(* roster entry.                                                           *)
(***************************************************************************)
\* match_name was called with a name of the roster, whose names are
\* pairwise distinct
OwnName ==
    /\ MatchDone
    /\ \E i \in 1..Len(call.in[2]) : call.in[2][i] = call.in[1]
    /\ \A i, j \in 1..Len(call.in[2]) : call.in[2][i] = call.in[2][j] => i = j

\* C30: model_names.match_name returns a name of the roster for that name
C30_ResolverReflexivity == OwnName => call.out.model_names = call.in[1]

====
